---- MODULE Spec2Model ----
(***************************************************************************)
(* ProjectHub backend (src/backend/main.py): the request handlers that     *)
(* govern project lifecycle, team composition and guide assignment, over   *)
(* the three document collections projects, team_invitations and           *)
(* guide_requests.                                                         *)
(*                                                                         *)
(* A handler is one action when requests run one after another (the        *)
(* specifications SpecTeam and SpecGuide).  The concurrent specifications  *)
(* split a handler at its store calls (find_one, update_one, update_many,  *)
(* insert_one, delete_one, delete_many), each store call being atomic.     *)
(***************************************************************************)
EXTENDS Integers, Sequences, FiniteSets, TLC

VARIABLES
    projects,          \* db.projects: project id -> project document
    team_invitations,  \* db.team_invitations: invitation id -> document
    guide_requests,    \* db.guide_requests: request id -> document
    issued,            \* ObjectIds handed out so far by insert_one, per collection
    response,          \* HTTP status of the last request handled
    calls,             \* requests in flight: the handler's position and locals
    db_users,          \* db.users: the ids of the user documents stored
    returned           \* what the last get_project or list_projects returned:
                       \* the set of the projects, empty when it raised

vars ==
    <<projects, team_invitations, guide_requests, issued, response, calls, db_users, returned>>

\* what the project, team and guide handlers leave alone
read == <<db_users, returned>>

db == <<projects, team_invitations, guide_requests, issued>>

-----------------------------------------------------------------------------
(* Bounds of the model *)

\* number of project documents ever inserted
MaxProjects == 1

\* number of invitation documents ever inserted
MaxInvitations == 4

\* number of guide request documents ever inserted
MaxRequests == 3

\* projects and guide requests ever inserted where two projects receive requests
MaxFrameProjects == 2

MaxFrameRequests == 4

-----------------------------------------------------------------------------
(* Values *)

\* Python None
Null == "None"

\* a path parameter that bson.ObjectId rejects (InvalidId)
BadId == "not-an-object-id"

\* the users collection: five students and two teachers of one department,
\* one student and one teacher of another, one admin
UserIds == {"s1", "s2", "s3", "s4", "s5", "s6", "t1", "t2", "t3", "a1"}

users[u \in UserIds] ==
    [role |-> IF u \in {"s1", "s2", "s3", "s4", "s5", "s6"} THEN "Student"
              ELSE IF u \in {"t1", "t2", "t3"} THEN "Teacher" ELSE "Admin",
     department |-> IF u \in {"s6", "t3"} THEN "EE"
                    ELSE IF u = "a1" THEN Null ELSE "CS"]

\* request bodies: inviteeEmail values; the stored email of user u is u \o "@hub"
Emails == {"s2@hub", "s3@hub", "s4@hub", "S5@HUB", "s1@hub", "s6@hub", "t1@hub",
           "nobody@hub"}

\* str.lower() on the e-mail values above
Lower(email) == IF email = "S5@HUB" THEN "s5@hub" ELSE email

\* db.users.find_one({"email": e}): the user id, or Null
FindUserByEmail(e) ==
    IF \E u \in UserIds : u \o "@hub" = e
    THEN CHOOSE u \in UserIds : u \o "@hub" = e
    ELSE Null

\* the requests that can be in flight at once
Slots == {1, 2}

\* no request in flight in a slot
Idle == [op |-> "idle"]

\* datetime.now(timezone.utc) as stored in a document
Now == "now"

\* ObjectIds of project documents, in the order insert_one hands them out
ProjectIdNames == <<"p1", "p2", "p3", "p4">>

ProjectIds == {ProjectIdNames[n] : n \in 1..MaxProjects}

\* the callers enumerated for CreateProject: a student and a teacher
Creators == {"s1", "t1"}

\* the callers enumerated for the handlers that check the caller against the
\* project: its owner and a student who can join it
Callers == {"s1", "s2"}

\* the students of the owner's department
Invitees == {"s2", "s3", "s4", "s5"}

-----------------------------------------------------------------------------
(* Helpers on documents *)

\* the team size limit: owner and members (main.py 770 and 909)
TeamCap == 4

\* TeamIsFull that never finds the team full: C17 fails with it
TeamIsFull_Never(project) == FALSE

\* IsMember with the membership test lost: C8 fails with it
IsMember_Never(project, user_id) == FALSE

\* any(member.get("userId") == user_id for member in project["teamMembers"])
IsMember(project, user_id) ==
    \E i \in 1..Len(project.teamMembers) : project.teamMembers[i].userId = user_id

\* NotOwner that lets a team member pass as the owner: C20 fails with it
NotOwner_NorMember(project, u) == project.ownerId # u /\ ~IsMember(project, u)

\* project.get("ownerId") != current_user["_id"]   (607, 740, 986, 1044)
NotOwner(project, u) == project.ownerId # u

\* TeamIsFull with > for >=: C4 fails with it
TeamIsFull_OffByOne(project) == 1 + Len(project.teamMembers) > TeamCap

\* current_team_size >= 4   (main.py 769-770 and 908-909)
TeamIsFull(project) == 1 + Len(project.teamMembers) >= TeamCap

\* CompletedCount that also counts the phases in progress: C6 fails with it
CompletedCount_Started(milestones) ==
    Cardinality({i \in 1..Len(milestones) : milestones[i].status # "not_started"})

\* sum(1 for m in milestones if m.get("status") == "completed")
CompletedCount(milestones) ==
    Cardinality({i \in 1..Len(milestones) : milestones[i].status = "completed"})

\* int((completed_count / len(milestones)) * 100)
Progress(milestones) == (CompletedCount(milestones) * 100) \div Len(milestones)

MilestoneNames ==
    <<"Abstract Creation", "Tables and Design", "Project Development", "Project Report">>

InitialMilestones ==
    [i \in 1..4 |-> [name |-> MilestoneNames[i], status |-> "not_started", order |-> i]]

\* pydantic parsing of a JSON body: the declared fields, the others dropped
ParseBody(fields, json) == [f \in fields \cap DOMAIN json |-> json[f]]

\* a request body whose Optional fields are all None
NoFields == <<>>

\* body.field is not None: an Optional field of a request body that is None
\* is left out of the record that models the body
Supplied(body, field) == field \in DOMAIN body

\* the response of a handler that returns normally or raises HTTPException:
\* its status code (detail is the message the code gives, kept for the reader)
Reply(status, detail) == response' = status

Fail(status, detail) == Reply(status, detail) /\ UNCHANGED db

Init ==
    /\ projects = <<>>
    /\ team_invitations = <<>>
    /\ guide_requests = <<>>
    /\ issued = [projects |-> 0, team_invitations |-> {}, guide_requests |-> {}]
    /\ response = 0
    /\ calls = [k \in Slots |-> Idle]
    /\ db_users = UserIds
    /\ returned = {}

-----------------------------------------------------------------------------
(* ObjectIds.  insert_one gives the new document a fresh id; the handlers   *)
(* use ids only to look documents up.  A project id is a counter value; an *)
(* invitation or guide request id is <<project, user, k>>, the k-th        *)
(* document inserted for that pair.  BadInvitationId and BadRequestId are  *)
(* path parameters that bson.ObjectId rejects.                             *)

NewProjectId == ProjectIdNames[issued.projects + 1]

PairCount(ids, pid, uid) == Cardinality({id \in ids : id[1] = pid /\ id[2] = uid})

NewInvitationId(pid, invitee) ==
    <<pid, invitee, PairCount(issued.team_invitations, pid, invitee) + 1>>

NewRequestId(pid, teacher) ==
    <<pid, teacher, PairCount(issued.guide_requests, pid, teacher) + 1>>

BadInvitationId == <<BadId, BadId, 0>>

BadRequestId == <<BadId, BadId, 0>>

\* a collection without the documents whose ids are in gone (delete_one, delete_many)
Without(collection, gone) == [id \in DOMAIN collection \ gone |-> collection[id]]

-----------------------------------------------------------------------------
(* POST /projects                                                          *)

\* the name, description and course code of the body of create_project
ProjectData == [name |-> "n1", description |-> "about1", courseCode |-> Null]

CreateProject(u, deadline) ==
    IF users[u].role # "Student"
    THEN Fail(403, "Only students can create projects")
    ELSE /\ LET project_doc ==
                    [name |-> ProjectData.name,
                     description |-> ProjectData.description,
                     courseCode |-> ProjectData.courseCode,
                     ownerId |-> u,
                     department |-> users[u].department,
                     status |-> "not_started",
                     teamMembers |-> <<>>,
                     guideId |-> Null,
                     milestones |-> InitialMilestones,
                     progress |-> 0,
                     deadline |-> deadline]
            IN  projects' = (NewProjectId :> project_doc) @@ projects
         /\ issued' = [issued EXCEPT !.projects = @ + 1]
         /\ Reply(201, "created project")
         /\ UNCHANGED <<team_invitations, guide_requests>>

(* PUT /projects/{project_id}                                              *)

(* GET /projects/{project_id}                                              *)

\* the fullName of the user documents
FullName == [u \in UserIds |-> "Name of " \o u]

\* get_current_user: no user document for the token's email
Unauthorized(u) == u \notin db_users

\* the loop of lines 492-501 over project["teamMembers"]
PopulateNames(teamMembers) ==
    [i \in 1..Len(teamMembers) |->
        LET member == teamMembers[i]
        IN  [fullName |-> IF member.userId = BadId THEN "Invalid User ID"
                          ELSE IF member.userId \in db_users THEN FullName[member.userId]
                          ELSE "Unknown User"] @@ member]

\* the fields models.TeamMember declares
TeamMemberFields == {"userId", "role", "isLeader", "joinedAt"}

\* the fields models.ProjectInDB declares
ProjectInDBFields ==
    {"_id", "name", "description", "courseCode", "ownerId", "ownerName", "department",
     "status", "teamMembers", "guideId", "guideName", "milestones", "progress",
     "deadline", "createdAt", "updatedAt"}

\* response_model=models.ProjectPublic: the returned dict is validated into
\* the model and serialized from it, which keeps the declared fields of the
\* project and of every team member and drops the others
ProjectPublic(project) ==
    [f \in DOMAIN project \cap ProjectInDBFields |->
        IF f = "teamMembers"
        THEN [i \in 1..Len(project.teamMembers) |->
                [g \in DOMAIN project.teamMembers[i] \cap TeamMemberFields |->
                    project.teamMembers[i][g]]]
        ELSE project[f]]

\* a request of get_project that raises
GetFails(status, detail) ==
    /\ Reply(status, detail)
    /\ returned' = {}
    /\ UNCHANGED <<db, db_users>>

GetProject(u, pid) ==
    IF Unauthorized(u) THEN GetFails(401, "User not found")
    ELSE IF pid = BadId THEN GetFails(400, "Invalid project ID format")
    ELSE IF pid \notin DOMAIN projects THEN GetFails(404, "Project not found")
    ELSE LET project == [projects[pid] EXCEPT !.teamMembers = PopulateNames(@)]
             is_owner == project.ownerId = u
             is_member == IsMember(project, u)
             is_guide == project.guideId = u
         IN  IF ~(is_owner \/ is_member \/ is_guide)
             THEN GetFails(403, "You don't have access to this project")
             ELSE /\ Reply(200, "project")
                  /\ returned' = {ProjectPublic(project)}
                  /\ UNCHANGED <<db, db_users>>

(* GET /projects                                                           *)

\* StatusMatches with the status filter lost: C34 fails with it
StatusMatches_Any(project, status_filter) == TRUE

\* if status_filter: query["status"] = status_filter   (None and "" are falsy)
StatusMatches(project, status_filter) ==
    status_filter \in {Null, ""} \/ project.status = status_filter

\* the query built from the role of the caller and role_filter (410-424)
RoleMatches(project, u, role_filter) ==
    IF users[u].role = "Student"
    THEN IF role_filter = "owner" THEN project.ownerId = u
         ELSE IF role_filter = "member" THEN IsMember(project, u)
         ELSE project.ownerId = u \/ IsMember(project, u)
    ELSE IF users[u].role = "Teacher" THEN project.guideId = u
    ELSE TRUE

\* a returned project: project["_id"] = str(project["_id"]), serialized by
\* the response model
Listed(pid) == [_id |-> pid] @@ ProjectPublic(projects[pid])

ListProjects(u, status_filter, role_filter) ==
    IF Unauthorized(u) THEN GetFails(401, "User not found")
    ELSE /\ returned' =
                {Listed(pid) : pid \in {id \in DOMAIN projects :
                    /\ RoleMatches(projects[id], u, role_filter)
                    /\ StatusMatches(projects[id], status_filter)}}
         /\ Reply(200, "projects")
         /\ UNCHANGED <<db, db_users>>

(* PUT /projects/{project_id}                                              *)

\* the fields models.UpdateProjectRequest declares
UpdateProjectRequestFields == {"name", "description", "courseCode", "status", "deadline"}

\* UpdateDoc that also takes the fields that are None: C28 fails with it
UpdateDoc_All(update_data) ==
    [f \in UpdateProjectRequestFields |->
        IF Supplied(update_data, f) THEN update_data[f] ELSE Null]

\* update_doc: one entry for every field of the body that is not None
\* (557-567)
UpdateDoc(update_data) ==
    [f \in {g \in UpdateProjectRequestFields : Supplied(update_data, g)} |-> update_data[f]]

\* update_one(..., {"$set": update_doc}) on the fields of a document
Set(doc, update_doc) ==
    [f \in DOMAIN doc |-> IF f \in DOMAIN update_doc THEN update_doc[f] ELSE doc[f]]

UpdateProject(u, pid, update_data) ==
    IF pid = BadId THEN Fail(400, "Invalid project ID format")
    ELSE IF pid \notin DOMAIN projects THEN Fail(404, "Project not found")
    ELSE LET project == projects[pid]
             is_owner == project.ownerId = u
             is_member == IsMember(project, u)
         IN  IF ~(is_owner \/ is_member)
             THEN Fail(403, "You don't have permission to edit this project")
             ELSE /\ projects' = [projects EXCEPT ![pid] = Set(@, UpdateDoc(update_data))]
                  /\ Reply(200, "updated project")
                  /\ UNCHANGED <<team_invitations, guide_requests, issued>>

(* DELETE /projects/{project_id}                                           *)

\* DeleteRelated that deletes the pending documents only: C19 fails with it
DeleteRelated_Pending(collection, pid) ==
    Without(collection, {id \in DOMAIN collection :
        collection[id].projectId = pid /\ collection[id].status = "pending"})

\* delete_many({"projectId": project_id})   (615-616, 1812-1813)
DeleteRelated(collection, pid) ==
    Without(collection, {id \in DOMAIN collection : collection[id].projectId = pid})

DeleteProject(u, pid) ==
    IF pid = BadId THEN Fail(400, "Invalid project ID format")
    ELSE IF pid \notin DOMAIN projects THEN Fail(404, "Project not found")
    ELSE IF NotOwner(projects[pid], u)
    THEN Fail(403, "Only the project owner can delete the project")
    ELSE /\ projects' = Without(projects, {pid})
         /\ team_invitations' = DeleteRelated(team_invitations, pid)
         /\ guide_requests' = DeleteRelated(guide_requests, pid)
         /\ Reply(200, "Project deleted successfully")
         /\ UNCHANGED issued

(* DELETE /api/admin/projects/{project_id}                                 *)

\* get_current_admin_user raises before the handler body runs; delete_one
\* reports deleted_count 0 for an id that names no project
DeleteProjectAdmin(u, pid) ==
    IF users[u].role # "Admin"
    THEN Fail(403, "Access forbidden: Requires admin privileges")
    ELSE IF pid = BadId THEN Fail(400, "Invalid project ID format")
    ELSE IF pid \notin DOMAIN projects THEN Fail(404, "Project not found")
    ELSE /\ projects' = Without(projects, {pid})
         /\ team_invitations' = DeleteRelated(team_invitations, pid)
         /\ guide_requests' = DeleteRelated(guide_requests, pid)
         /\ Reply(204, "Project deleted successfully")
         /\ UNCHANGED issued

(* DELETE /api/admin/users/{user_id}                                       *)

\* deletes the user document and nothing else (the cascade is a TODO of
\* lines 1784-1786)
DeleteUser(u, user_id) ==
    IF Unauthorized(u) THEN Fail(401, "User not found") /\ UNCHANGED read
    ELSE IF users[u].role # "Admin"
    THEN Fail(403, "Access forbidden: Requires admin privileges") /\ UNCHANGED read
    ELSE IF user_id = BadId THEN Fail(400, "Invalid user ID format") /\ UNCHANGED read
    ELSE IF user_id \notin db_users THEN Fail(404, "User not found") /\ UNCHANGED read
    ELSE /\ db_users' = db_users \ {user_id}
         /\ Reply(204, "User deleted successfully")
         /\ UNCHANGED <<db, returned>>

(* PUT /api/admin/projects/{project_id}                                    *)

\* AdminProjectUpdate that lets the owner and the department through: C29
\* fails with it
AdminProjectUpdateFields_Open ==
    {"name", "ownerName", "guideName", "status", "ownerId", "department"}

\* the fields AdminProjectUpdate declares
AdminProjectUpdateFields == {"name", "ownerName", "guideName", "status"}

\* ownerName and guideName are display names, which the project documents
\* of this model do not carry: Set writes the name and the status
UpdateProjectDetails(u, pid, json) ==
    LET update_doc == ParseBody(AdminProjectUpdateFields, json)
    IN  IF users[u].role # "Admin"
        THEN Fail(403, "Access forbidden: Requires admin privileges")
        ELSE IF pid = BadId THEN Fail(400, "Invalid project ID format")
        ELSE IF DOMAIN update_doc = {} THEN Fail(400, "No update data provided")
        ELSE IF pid \notin DOMAIN projects THEN Fail(404, "Project not found")
        ELSE /\ projects' = [projects EXCEPT ![pid] = Set(@, update_doc)]
             /\ Reply(200, "updated project")
             /\ UNCHANGED <<team_invitations, guide_requests, issued>>

-----------------------------------------------------------------------------
(* POST /projects/{project_id}/team/invite                                 *)

\* PendingInvitationExists with the lookup lost: C9 fails with it
PendingInvitationExists_Never(invitations, pid, invitee_id) == FALSE

\* db.team_invitations.find_one({projectId, inviteeId, status: "pending"})
PendingInvitationExists(invitations, pid, invitee_id) ==
    \E id \in DOMAIN invitations :
        /\ invitations[id].projectId = pid
        /\ invitations[id].inviteeId = invitee_id
        /\ invitations[id].status = "pending"

SendTeamInvite(u, pid, inviteeEmail) ==
    IF pid = BadId THEN Fail(400, "Invalid project ID format")
    ELSE IF pid \notin DOMAIN projects THEN Fail(404, "Project not found")
    ELSE LET project == projects[pid]
             invitee_id == FindUserByEmail(Lower(inviteeEmail))
         IN  IF NotOwner(project, u)
             THEN Fail(403, "Only the project owner can send invitations")
             ELSE IF invitee_id = Null THEN Fail(404, "Student not found")
             ELSE IF users[invitee_id].role # "Student"
             THEN Fail(400, "Can only invite students")
             ELSE IF users[invitee_id].department # project.department
             THEN Fail(400, "Can only invite students from your department")
             ELSE IF TeamIsFull(project) THEN Fail(400, "Team is full (max 4 members)")
             ELSE IF project.ownerId = invitee_id
             THEN Fail(400, "User is already project owner")
             ELSE IF IsMember(project, invitee_id)
             THEN Fail(400, "User is already team member")
             ELSE IF PendingInvitationExists(team_invitations, pid, invitee_id)
             THEN Fail(400, "Invitation already sent")
             ELSE LET id == NewInvitationId(pid, invitee_id)
                      invitation_doc ==
                          [projectId |-> pid,
                           inviterId |-> u,
                           inviteeId |-> invitee_id,
                           status |-> "pending",
                           respondedAt |-> Null]
                  IN  /\ team_invitations' = (id :> invitation_doc) @@ team_invitations
                      /\ issued' = [issued EXCEPT !.team_invitations = @ \cup {id}]
                      /\ Reply(201, "created invitation")
                      /\ UNCHANGED <<projects, guide_requests>>

(* POST /invitations/team/{invitation_id}/respond                          *)

\* InvitationResponded with the status test lost: C10 fails with it
InvitationResponded_Never(invitation) == FALSE

\* invitation.get("status") != "pending"   (883-888)
InvitationResponded(invitation) == invitation.status # "pending"

NewMember(user_id) == [userId |-> user_id, role |-> Null, isLeader |-> FALSE]

\* PushMember that appends only while the team has room: C5 fails with it
PushMember_Capped(teamMembers, user_id) ==
    IF 1 + Len(teamMembers) >= TeamCap THEN teamMembers
    ELSE Append(teamMembers, NewMember(user_id))

\* "$push": {"teamMembers": new_member}   (923-929)
PushMember(teamMembers, user_id) == Append(teamMembers, NewMember(user_id))

\* MarkInvitation that sets the status and no respondedAt: C16 fails with it
MarkInvitation_NoStamp(invitations, iid, status) ==
    [invitations EXCEPT ![iid] = [@ EXCEPT !.status = status]]

\* the update_one of lines 932-940 (accepted) and 943-951 (declined)
MarkInvitation(invitations, iid, status) ==
    [invitations EXCEPT ![iid] = [@ EXCEPT !.status = status, !.respondedAt = Now]]

RespondToTeamInvite(u, iid, accept) ==
    IF iid = BadInvitationId THEN Fail(400, "Invalid invitation ID format")
    ELSE IF iid \notin DOMAIN team_invitations THEN Fail(404, "Invitation not found")
    ELSE LET invitation == team_invitations[iid]
             pid == invitation.projectId
         IN  IF invitation.inviteeId # u THEN Fail(403, "Not your invitation")
             ELSE IF InvitationResponded(invitation)
             THEN Fail(400, "Invitation already responded to")
             ELSE IF pid \notin DOMAIN projects THEN Fail(404, "Project no longer exists")
             ELSE IF accept
             THEN IF TeamIsFull(projects[pid]) THEN Fail(400, "Team is now full")
                  ELSE /\ projects' = [projects EXCEPT ![pid].teamMembers =
                                            PushMember(@, u)]
                       /\ team_invitations' =
                             MarkInvitation(team_invitations, iid, "accepted")
                       /\ Reply(200, "invitation accepted")
                       /\ UNCHANGED <<guide_requests, issued>>
             ELSE /\ team_invitations' = MarkInvitation(team_invitations, iid, "declined")
                  /\ Reply(200, "invitation declined")
                  /\ UNCHANGED <<projects, guide_requests, issued>>

(* DELETE /projects/{project_id}/team/{user_id}                            *)

\* Pull that empties the array: C33 fails with it
Pull_All(teamMembers, user_id) == <<>>

\* "$pull": {"teamMembers": {"userId": user_id}}
Pull(teamMembers, user_id) ==
    SelectSeq(teamMembers, LAMBDA m : m.userId # user_id)

RemoveTeamMember(u, pid, user_id) ==
    IF pid = BadId THEN Fail(400, "Invalid project ID format")
    ELSE IF pid \notin DOMAIN projects THEN Fail(404, "Project not found")
    ELSE IF NotOwner(projects[pid], u)
    THEN Fail(403, "Only the project owner can remove team members")
    ELSE IF ~IsMember(projects[pid], user_id) THEN Fail(404, "User is not a team member")
    ELSE /\ projects' = [projects EXCEPT ![pid].teamMembers = Pull(@, user_id)]
         /\ team_invitations' = Without(team_invitations,
                {id \in DOMAIN team_invitations :
                    /\ team_invitations[id].projectId = pid
                    /\ team_invitations[id].inviteeId = user_id
                    /\ team_invitations[id].status = "pending"})
         /\ Reply(200, "Team member removed successfully")
         /\ UNCHANGED <<guide_requests, issued>>

(* PUT /projects/{project_id}/team/{user_id}                               *)

\* the first index whose member has this userId (the loop with break, 1052-1056)
MemberIndex(team_members, user_id) ==
    CHOOSE i \in 1..Len(team_members) :
        /\ team_members[i].userId = user_id
        /\ \A j \in 1..(i - 1) : team_members[j].userId # user_id

\* UpdatedMembers without the loop that clears the other leader flags: C7
\* fails with it
UpdatedMembers_NoClear(team_members, member_index, update_data) ==
    LET withRole ==
            IF Supplied(update_data, "role")
            THEN [team_members EXCEPT ![member_index].role = update_data.role]
            ELSE team_members
    IN  IF Supplied(update_data, "isLeader")
        THEN [withRole EXCEPT ![member_index].isLeader = update_data.isLeader]
        ELSE withRole

\* lines 1064-1073 on the list read from the project
UpdatedMembers(team_members, member_index, update_data) ==
    LET withRole ==
            IF Supplied(update_data, "role")
            THEN [team_members EXCEPT ![member_index].role = update_data.role]
            ELSE team_members
        cleared ==
            IF Supplied(update_data, "isLeader") /\ update_data.isLeader
            THEN [i \in 1..Len(withRole) |-> [withRole[i] EXCEPT !.isLeader = FALSE]]
            ELSE withRole
    IN  IF Supplied(update_data, "isLeader")
        THEN [cleared EXCEPT ![member_index].isLeader = update_data.isLeader]
        ELSE cleared

UpdateTeamMember(u, pid, user_id, update_data) ==
    IF pid = BadId THEN Fail(400, "Invalid project ID format")
    ELSE IF pid \notin DOMAIN projects THEN Fail(404, "Project not found")
    ELSE IF NotOwner(projects[pid], u)
    THEN Fail(403, "Only the project owner can update team members")
    ELSE IF ~IsMember(projects[pid], user_id) THEN Fail(404, "User is not a team member")
    ELSE LET team_members == projects[pid].teamMembers
             member_index == MemberIndex(team_members, user_id)
         IN  /\ projects' = [projects EXCEPT ![pid].teamMembers =
                                UpdatedMembers(team_members, member_index, update_data)]
             /\ Reply(200, "updated team member")
             /\ UNCHANGED <<team_invitations, guide_requests, issued>>

-----------------------------------------------------------------------------
(* PUT /projects/{project_id}/milestones                                   *)

\* MilestoneStatuses that lets any status through: C30 fails with it
MilestoneStatuses_Open == {"not_started", "in_progress", "completed", "done"}

MilestoneStatuses == {"not_started", "in_progress", "completed"}

\* MilestoneIndex that takes the first element of the array: C35 fails
\* with it
MilestoneIndex_Position(milestones, order) == 1

\* the first milestone whose order is the given one (the loop with break,
\* 675-679), or 0 when there is none
MilestoneIndex(milestones, order) ==
    IF \E i \in 1..Len(milestones) : milestones[i].order = order
    THEN CHOOSE i \in 1..Len(milestones) :
            /\ milestones[i].order = order
            /\ \A j \in 1..(i - 1) : milestones[j].order # order
    ELSE 0

\* StudentCompletes with the role test lost: C14 fails with it
StudentCompletes_Never(u, status) == FALSE

\* a Student may not mark a phase completed (658-663)
StudentCompletes(u, status) == users[u].role = "Student" /\ status = "completed"

UpdateMilestone(u, pid, milestone_data) ==
    IF pid = BadId THEN Fail(400, "Invalid project ID format")
    ELSE IF pid \notin DOMAIN projects THEN Fail(404, "Project not found")
    ELSE LET project == projects[pid]
             is_owner == project.ownerId = u
             is_member == IsMember(project, u)
             is_guide == project.guideId = u
             found == MilestoneIndex(project.milestones, milestone_data.milestoneOrder)
             milestones == [project.milestones EXCEPT ![found].status = milestone_data.status]
         IN  IF ~(is_owner \/ is_member \/ is_guide)
             THEN Fail(403, "You don't have permission to edit this project")
             ELSE IF StudentCompletes(u, milestone_data.status)
             THEN Fail(403, "Only the project guide can mark a phase as completed.")
             ELSE IF milestone_data.status \notin MilestoneStatuses
             THEN Fail(400, "Invalid milestone status")
             ELSE IF found = 0 THEN Fail(400, "Milestone with order not found")
             ELSE /\ projects' = [projects EXCEPT ![pid] =
                        [@ EXCEPT !.milestones = milestones,
                                  !.progress = Progress(milestones)]]
                  /\ Reply(200, "updated milestone")
                  /\ UNCHANGED <<team_invitations, guide_requests, issued>>

\* models.UpdateMilestoneRequest: milestoneOrder is an int with ge=1, le=4
ValidMilestoneRequest(json) == json.milestoneOrder \in 1..4

\* the route: the body is validated into the request model before the
\* handler runs, and a body that does not validate is answered 422
PutMilestones(u, pid, json) ==
    IF ~ValidMilestoneRequest(json)
    THEN Fail(422, "Input should be greater than or equal to 1 / less than or equal to 4")
    ELSE UpdateMilestone(u, pid, json)

-----------------------------------------------------------------------------
(* POST /projects/{project_id}/guide/request                               *)

\* the fields models.SendGuideRequestRequest declares (its body is "pass")
SendGuideRequestRequestFields == {}

\* the request model the handler expects at line 1166 and the specification
\* describes (RequestToGuide(teacher, projectId, deadlineProposal))
RequestToGuideFields == {"deadline"}

\* PendingRequestExists that finds nothing: C23 fails with it
PendingRequestExists_Never(requests, pid, teacher_id) == FALSE

\* db.guide_requests.find_one({projectId, teacherId, status: "pending"})
PendingRequestExists(requests, pid, teacher_id) ==
    \E id \in DOMAIN requests :
        /\ requests[id].projectId = pid
        /\ requests[id].teacherId = teacher_id
        /\ requests[id].status = "pending"

\* HasGuide that never sees the guide: C36 fails with it
HasGuide_Never(project) == FALSE

\* project.get("guideId") is truthy
HasGuide(project) == project.guideId # Null

\* the handler over a request model with the given fields
SendGuideRequestWith(fields, u, pid, json) ==
    LET request_data == ParseBody(fields, json)
    IN  IF users[u].role # "Teacher"
        THEN Fail(403, "Only teachers can send guide requests")
        ELSE IF pid = BadId THEN Fail(400, "Invalid project ID format")
        ELSE IF pid \notin DOMAIN projects THEN Fail(404, "Project not found")
        ELSE IF HasGuide(projects[pid]) THEN Fail(400, "Project already has a guide")
        ELSE IF projects[pid].department # users[u].department
        THEN Fail(403, "Can only guide projects in your department")
        ELSE IF PendingRequestExists(guide_requests, pid, u)
        THEN Fail(400, "Request already sent")
        ELSE IF "deadline" \notin DOMAIN request_data
        THEN Fail(500, "AttributeError: request_data.deadline")
        ELSE LET id == NewRequestId(pid, u)
                 request_doc ==
                     [projectId |-> pid,
                      teacherId |-> u,
                      ownerId |-> projects[pid].ownerId,
                      status |-> "pending",
                      declineReason |-> Null,
                      deadline |-> request_data.deadline,
                      respondedAt |-> Null]
             IN  /\ guide_requests' = (id :> request_doc) @@ guide_requests
                 /\ issued' = [issued EXCEPT !.guide_requests = @ \cup {id}]
                 /\ Reply(201, "created guide request")
                 /\ UNCHANGED <<projects, team_invitations>>

\* the handler as the repository has it
SendGuideRequest(u, pid, json) ==
    SendGuideRequestWith(SendGuideRequestRequestFields, u, pid, json)

\* the handler with the request model that carries the proposed deadline
RequestToGuide(u, pid, json) ==
    SendGuideRequestWith(RequestToGuideFields, u, pid, json)

-----------------------------------------------------------------------------
(* POST /requests/guide/{request_id}/respond                               *)

\* str.strip() on the decline reasons of the model
Strip(reason) == IF reason \in {"", " "} THEN "" ELSE reason

\* ReasonMissing without the strip: C24 fails with it
ReasonMissing_Unstripped(response_data) ==
    \/ ~Supplied(response_data, "declineReason")
    \/ response_data.declineReason = ""

\* not response_data.declineReason or response_data.declineReason.strip() == ""
ReasonMissing(response_data) ==
    \/ ~Supplied(response_data, "declineReason")
    \/ response_data.declineReason = ""
    \/ Strip(response_data.declineReason) = ""

\* StartMilestones without the array filter: C13 fails with it
StartMilestones_All(milestones) ==
    [i \in 1..Len(milestones) |-> [milestones[i] EXCEPT !.status = "in_progress"]]

\* "milestones.$[elem].status": "in_progress" with
\* array_filters=[{"elem.status": "not_started"}]
StartMilestones(milestones) ==
    [i \in 1..Len(milestones) |->
        IF milestones[i].status = "not_started"
        THEN [milestones[i] EXCEPT !.status = "in_progress"]
        ELSE milestones[i]]

\* the update_one of lines 1302-1316
AssignGuide(project, guide_request) ==
    [project EXCEPT !.guideId = guide_request.teacherId,
                    !.deadline = guide_request.deadline,
                    !.status = "in_progress",
                    !.milestones = StartMilestones(@)]

\* the update_one of lines 1256-1265
DeclineRequest(requests, rid, reason) ==
    [requests EXCEPT ![rid] = [@ EXCEPT !.status = "declined",
                                        !.declineReason = reason,
                                        !.respondedAt = Now]]

\* the update_one of lines 1319-1327
AcceptRequest(requests, rid) ==
    [requests EXCEPT ![rid] = [@ EXCEPT !.status = "accepted", !.respondedAt = Now]]

\* OtherPending without the projectId of the filter: C12 fails with it
OtherPending_AnyProject(requests, pid, rid) ==
    {id \in DOMAIN requests : requests[id].status = "pending" /\ id # rid}

\* the filter of the update_many of lines 1330-1335
OtherPending(requests, pid, rid) ==
    {id \in DOMAIN requests :
        /\ requests[id].projectId = pid
        /\ requests[id].status = "pending"
        /\ id # rid}

\* DeclineOthers that declines nothing: C1 fails with it
DeclineOthers_None(requests, pid, rid) == requests

\* the update_many of lines 1330-1343
DeclineOthers(requests, pid, rid) ==
    [id \in DOMAIN requests |->
        IF id \in OtherPending(requests, pid, rid)
        THEN [requests[id] EXCEPT !.status = "declined",
                                  !.declineReason = "Another guide was accepted",
                                  !.respondedAt = Now]
        ELSE requests[id]]

\* NotRequestOwner applied to pending requests only, which gives the status
\* test precedence: C18 fails with it
NotRequestOwner_Pending(guide_request, u) ==
    guide_request.status = "pending" /\ guide_request.ownerId # u

\* guide_request.get("ownerId") != current_user["_id"]   (1234-1239)
NotRequestOwner(guide_request, u) == guide_request.ownerId # u

\* RequestResponded with the status test lost: C11 fails with it
RequestResponded_Never(guide_request) == FALSE

\* guide_request.get("status") != "pending"   (1241-1246)
RequestResponded(guide_request) == guide_request.status # "pending"

RespondToGuideRequest(u, rid, response_data) ==
    IF rid = BadRequestId THEN Fail(400, "Invalid request ID format")
    ELSE IF rid \notin DOMAIN guide_requests THEN Fail(404, "Guide request not found")
    ELSE LET guide_request == guide_requests[rid]
             pid == guide_request.projectId
         IN  IF NotRequestOwner(guide_request, u) THEN Fail(403, "Not your project")
             ELSE IF RequestResponded(guide_request)
             THEN Fail(400, "Request already responded to")
             ELSE IF ~response_data.accept
             THEN IF ReasonMissing(response_data)
                  THEN Fail(400, "Decline reason is required")
                  ELSE /\ guide_requests' =
                            DeclineRequest(guide_requests, rid, response_data.declineReason)
                       /\ Reply(200, "request declined")
                       /\ UNCHANGED <<projects, team_invitations, issued>>
             ELSE IF pid \notin DOMAIN projects THEN Fail(404, "Project no longer exists")
             ELSE IF HasGuide(projects[pid]) THEN Fail(400, "Project already has a guide")
             ELSE /\ projects' = [projects EXCEPT ![pid] = AssignGuide(@, guide_request)]
                  /\ guide_requests' =
                        DeclineOthers(AcceptRequest(guide_requests, rid), pid, rid)
                  /\ Reply(200, "request accepted")
                  /\ UNCHANGED <<team_invitations, issued>>

(* PUT /projects/{project_id}/deadline                                     *)

\* NotGuide that only asks for a guide to exist: C32 fails with it
NotGuide_NoGuide(project, u) == project.guideId = Null

\* project.get("guideId") != current_user["_id"]   (1378-1383)
NotGuide(project, u) == project.guideId # u

SetDeadline(u, pid, deadline) ==
    IF pid = BadId THEN Fail(400, "Invalid project ID format")
    ELSE IF pid \notin DOMAIN projects THEN Fail(404, "Project not found")
    ELSE IF NotGuide(projects[pid], u)
    THEN Fail(403, "Only the project guide can set deadline")
    ELSE /\ projects' = [projects EXCEPT ![pid].deadline = deadline]
         /\ Reply(200, "deadline set")
         /\ UNCHANGED <<team_invitations, guide_requests, issued>>

-----------------------------------------------------------------------------
(* Requests handled one after another: project and team handlers           *)

PathProjectIds == ProjectIds \cup {BadId}

MemberUpdates == {NoFields} \cup [isLeader : BOOLEAN]

\* invitation ids in a path: the stored invitations, an id that names no
\* document and a malformed one
NoSuchInvitationId == <<"p1", "s2", 0>>

PathInvitationIds == DOMAIN team_invitations \cup {NoSuchInvitationId, BadInvitationId}

\* the callers enumerated for a response: the invitee and the project owner
RespondCallers(iid) ==
    IF iid \in DOMAIN team_invitations
    THEN {team_invitations[iid].inviteeId, team_invitations[iid].inviterId}
    ELSE {"s2"}

\* the bound on the documents ever inserted
InBounds ==
    /\ issued.projects <= MaxProjects
    /\ Cardinality(issued.team_invitations) <= MaxInvitations
    /\ Cardinality(issued.guide_requests) <= MaxRequests

TeamRequest ==
    \/ \E u \in Creators : CreateProject(u, Null)
    \/ \E u \in Callers, pid \in PathProjectIds, upd \in {NoFields, [status |-> "Active"]} :
            UpdateProject(u, pid, upd)
    \/ \E u \in Callers, pid \in ProjectIds : DeleteProject(u, pid)
    \/ \E u \in Callers, pid \in ProjectIds, e \in Emails : SendTeamInvite(u, pid, e)
    \/ \E iid \in PathInvitationIds : \E u \in RespondCallers(iid), accept \in BOOLEAN :
            RespondToTeamInvite(u, iid, accept)
    \/ \E u \in Callers, pid \in ProjectIds, m \in Invitees :
            RemoveTeamMember(u, pid, m)
    \/ \E u \in Callers, pid \in ProjectIds, m \in Invitees, upd \in MemberUpdates :
            UpdateTeamMember(u, pid, m, upd)

NextTeam == TeamRequest /\ InBounds' /\ UNCHANGED <<calls, read>>

SpecTeam == Init /\ [][NextTeam]_vars

-----------------------------------------------------------------------------
(* Requests handled one after another: project, milestone and guide        *)
(* handlers                                                                *)

Teachers == {"t1", "t2", "t3"}

\* the callers enumerated for milestone updates: the owner, another student,
\* the teachers of the department
MilestoneCallers == {"s1", "s2", "t1", "t2"}

MilestoneUpdates == [milestoneOrder : 1..4, status : MilestoneStatuses \cup {"done"}]

\* JSON bodies of a guide request
GuideRequestBodies == {NoFields, [deadline |-> "d1"]}

\* bodies of a response to a guide request
GuideResponses ==
    [accept : BOOLEAN] \cup [accept : {FALSE}, declineReason : {"", " ", "busy"}]

NoSuchRequestId == <<"p1", "t1", 0>>

PathRequestIds == DOMAIN guide_requests \cup {NoSuchRequestId, BadRequestId}

GuideRequest ==
    \/ \E u \in Creators : CreateProject(u, Null)
    \/ \E u \in Callers, pid \in ProjectIds : DeleteProject(u, pid)
    \/ \E u \in MilestoneCallers, pid \in ProjectIds, body \in MilestoneUpdates :
            UpdateMilestone(u, pid, body)
    \/ \E u \in Teachers \cup {"s1"}, pid \in PathProjectIds, json \in GuideRequestBodies :
            SendGuideRequest(u, pid, json)
    \/ \E u \in Teachers, pid \in ProjectIds : RequestToGuide(u, pid, [deadline |-> "d1"])
    \/ \E u \in Callers, rid \in PathRequestIds, body \in GuideResponses :
            RespondToGuideRequest(u, rid, body)
    \/ \E u \in {"s1", "t1", "t2"}, pid \in PathProjectIds : SetDeadline(u, pid, "d2")

NextGuide == GuideRequest /\ InBounds' /\ UNCHANGED <<calls, read>>

SpecGuide == Init /\ [][NextGuide]_vars

-----------------------------------------------------------------------------
(* Requests handled one after another: guide requests for two projects of  *)
(* one owner                                                               *)

\* bodies of a response: an acceptance and a decline with its reason
OfferGuideResponses == {[accept |-> TRUE], [accept |-> FALSE, declineReason |-> "busy"]}

FrameProjectIds == {ProjectIdNames[n] : n \in 1..MaxFrameProjects}

FrameInBounds ==
    /\ issued.projects <= MaxFrameProjects
    /\ Cardinality(issued.guide_requests) <= MaxFrameRequests

FrameRequest ==
    \/ CreateProject("s1", Null)
    \/ \E u \in {"t1", "t2"}, pid \in FrameProjectIds :
            RequestToGuide(u, pid, [deadline |-> "d1"])
    \/ \E rid \in DOMAIN guide_requests, body \in OfferGuideResponses :
            RespondToGuideRequest("s1", rid, body)

NextFrame == FrameRequest /\ FrameInBounds' /\ UNCHANGED <<calls, read>>

SpecFrame == Init /\ [][NextFrame]_vars

-----------------------------------------------------------------------------
(* Requests handled one after another: one project with its team member,   *)
(* its guide and its administrator                                         *)

\* the callers enumerated for the owner's routes: the owner, a student who
\* joins the team and a teacher who becomes the guide
OwnerRouteCallers == {"s1", "s2", "t1"}

\* the callers enumerated for the admin route: the admin and the owner
AdminCallers == {"a1", "s1"}

OfferMilestoneUpdates == [milestoneOrder : {1, 2}, status : {"in_progress", "completed"}]

OfferRequest ==
    \/ CreateProject("s1", Null)
    \/ \E u \in OwnerRouteCallers, pid \in ProjectIds : SendTeamInvite(u, pid, "s2@hub")
    \/ \E iid \in DOMAIN team_invitations, u \in Callers, accept \in BOOLEAN :
            RespondToTeamInvite(u, iid, accept)
    \/ \E u \in OwnerRouteCallers, pid \in ProjectIds : RemoveTeamMember(u, pid, "s2")
    \/ \E u \in OwnerRouteCallers, pid \in ProjectIds :
            UpdateTeamMember(u, pid, "s2", [isLeader |-> TRUE])
    \/ \E u \in {"t1", "t2"}, pid \in ProjectIds : RequestToGuide(u, pid, [deadline |-> "d1"])
    \/ \E rid \in DOMAIN guide_requests, u \in Callers, body \in OfferGuideResponses :
            RespondToGuideRequest(u, rid, body)
    \/ \E u \in OwnerRouteCallers, pid \in ProjectIds, body \in OfferMilestoneUpdates :
            UpdateMilestone(u, pid, body)
    \/ \E u \in OwnerRouteCallers, pid \in ProjectIds : DeleteProject(u, pid)
    \/ \E u \in AdminCallers, pid \in PathProjectIds : DeleteProjectAdmin(u, pid)

NextOffer == OfferRequest /\ InBounds' /\ UNCHANGED <<calls, read>>

SpecOffer == Init /\ [][NextOffer]_vars

-----------------------------------------------------------------------------
(* Requests handled one after another: every handler that writes a project *)
(* document, for a project with an owner, a member, a guide and a stranger *)

EditCallers == {"s1", "s2", "s3", "t1"}

\* bodies of update_project: no field, one field, all fields but one, all
\* fields supplied
ProjectUpdateValues ==
    [name |-> "n2", description |-> "about2", courseCode |-> "cc2",
     status |-> "Active", deadline |-> "d2"]

ProjectUpdates ==
    {[f \in fields |-> ProjectUpdateValues[f]] :
        fields \in {fs \in SUBSET UpdateProjectRequestFields : Cardinality(fs) \in {0, 1, 4, 5}}}

\* JSON bodies of the admin update: no field, declared fields, a display
\* name, fields the model does not declare
AdminProjectUpdates ==
    {NoFields,
     [name |-> "n3"],
     [status |-> "Inactive"],
     [guideName |-> Null],
     [ownerId |-> "s2", department |-> "EE"],
     [name |-> "n3", ownerId |-> "s2", department |-> "EE", guideId |-> "t2",
      milestones |-> <<>>]}

\* the bodies of update_project enumerated next to the other handlers
EditProjectUpdates ==
    {NoFields, [name |-> "n2"], [status |-> "Active", deadline |-> "d2"], ProjectUpdateValues}

EditMilestoneUpdates == [milestoneOrder : {1, 4}, status : {"in_progress", "completed", "done"}]

EditRequest ==
    \/ CreateProject("s1", Null)
    \/ \E u \in EditCallers, pid \in PathProjectIds, upd \in EditProjectUpdates :
            UpdateProject(u, pid, upd)
    \/ \E u \in AdminCallers, pid \in PathProjectIds, json \in AdminProjectUpdates :
            UpdateProjectDetails(u, pid, json)
    \/ \E pid \in ProjectIds : SendTeamInvite("s1", pid, "s2@hub")
    \/ \E iid \in DOMAIN team_invitations : RespondToTeamInvite("s2", iid, TRUE)
    \/ \E pid \in ProjectIds : RemoveTeamMember("s1", pid, "s2")
    \/ \E pid \in ProjectIds : UpdateTeamMember("s1", pid, "s2", [isLeader |-> TRUE])
    \/ \E pid \in ProjectIds : RequestToGuide("t1", pid, [deadline |-> "d1"])
    \/ \E rid \in DOMAIN guide_requests : RespondToGuideRequest("s1", rid, [accept |-> TRUE])
    \/ \E u \in {"s1", "t1"}, pid \in ProjectIds, body \in EditMilestoneUpdates :
            UpdateMilestone(u, pid, body)
    \/ \E pid \in ProjectIds : SetDeadline("t1", pid, "d3")

NextEdit == EditRequest /\ InBounds' /\ UNCHANGED <<calls, read>>

SpecEdit == Init /\ [][NextEdit]_vars

-----------------------------------------------------------------------------
(* Requests handled one after another: the handlers that write guideId or  *)
(* could, for a project that two teachers ask to guide                     *)

KeepTeachers == {"t1", "t2"}

KeepRequest ==
    \/ CreateProject("s1", Null)
    \/ \E u \in KeepTeachers, pid \in ProjectIds :
            RequestToGuide(u, pid, [deadline |-> "d1"])
    \/ \E rid \in DOMAIN guide_requests, body \in OfferGuideResponses :
            RespondToGuideRequest("s1", rid, body)
    \/ \E u \in {"s1", "t1"}, pid \in ProjectIds, upd \in EditProjectUpdates :
            UpdateProject(u, pid, upd)
    \/ \E u \in AdminCallers, pid \in ProjectIds, json \in AdminProjectUpdates :
            UpdateProjectDetails(u, pid, json)
    \/ \E u \in KeepTeachers, pid \in ProjectIds : SetDeadline(u, pid, "d3")
    \/ \E u \in {"s1"} \cup KeepTeachers, pid \in ProjectIds,
            body \in OfferMilestoneUpdates : UpdateMilestone(u, pid, body)
    \/ \E pid \in ProjectIds : DeleteProject("s1", pid)

NextKeep == KeepRequest /\ InBounds' /\ UNCHANGED <<calls, read>>

SpecKeep == Init /\ [][NextKeep]_vars

-----------------------------------------------------------------------------
(* Requests handled one after another: get_project for a project with an   *)
(* owner, two members, a guide and a stranger, while an admin deletes      *)
(* users                                                                   *)

ReadCallers == {"s1", "s2", "s3", "s4", "t1", "a1"}

\* the request of a caller whose user document is stored (the others stop
\* at get_current_user)
By(u, request) == u \in db_users /\ request /\ UNCHANGED read

ReadRequest ==
    \/ By("s1", CreateProject("s1", Null))
    \/ \E pid \in ProjectIds, m \in {"s2", "s3"} :
            m \in db_users /\ By("s1", SendTeamInvite("s1", pid, m \o "@hub"))
    \/ \E iid \in DOMAIN team_invitations, u \in {"s2", "s3"} :
            By(u, RespondToTeamInvite(u, iid, TRUE))
    \/ \E pid \in ProjectIds : By("s1", RemoveTeamMember("s1", pid, "s2"))
    \/ \E pid \in ProjectIds : By("t1", RequestToGuide("t1", pid, [deadline |-> "d1"]))
    \/ \E rid \in DOMAIN guide_requests :
            By("s1", RespondToGuideRequest("s1", rid, [accept |-> TRUE]))
    \/ \E u \in AdminCallers, user_id \in {"s2", "s3", "s4", BadId} : DeleteUser(u, user_id)
    \/ \E u \in ReadCallers, pid \in PathProjectIds : GetProject(u, pid)

NextRead == ReadRequest /\ InBounds' /\ UNCHANGED calls

SpecRead == Init /\ [][NextRead]_vars

-----------------------------------------------------------------------------
(* Requests handled one after another: milestone and deadline updates for  *)
(* a project with an owner, a member, a guide and strangers                *)

PhaseCallers == {"s1", "s2", "s3", "t1", "t2"}

\* JSON bodies of a milestone update: orders inside and outside 1..4,
\* statuses inside and outside the enumeration
MilestoneBodies == [milestoneOrder : 0..5, status : MilestoneStatuses \cup {"done"}]

PhaseRequest ==
    \/ CreateProject("s1", Null)
    \/ \E pid \in ProjectIds : SendTeamInvite("s1", pid, "s2@hub")
    \/ \E iid \in DOMAIN team_invitations : RespondToTeamInvite("s2", iid, TRUE)
    \/ \E pid \in ProjectIds : UpdateTeamMember("s1", pid, "s2", [isLeader |-> TRUE])
    \/ \E pid \in ProjectIds : RequestToGuide("t1", pid, [deadline |-> "d1"])
    \/ \E rid \in DOMAIN guide_requests : RespondToGuideRequest("s1", rid, [accept |-> TRUE])
    \/ \E u \in PhaseCallers, pid \in PathProjectIds, json \in MilestoneBodies :
            PutMilestones(u, pid, json)
    \/ \E u \in PhaseCallers, pid \in PathProjectIds, deadline \in {"d2", "d3"} :
            SetDeadline(u, pid, deadline)

NextPhase == PhaseRequest /\ InBounds' /\ UNCHANGED <<calls, read>>

SpecPhase == Init /\ [][NextPhase]_vars

-----------------------------------------------------------------------------
(* Requests handled one after another: list_projects over two projects of  *)
(* two owners, one of them member of the other's project, a teacher who    *)
(* guides and one who does not                                             *)

ListCallers == {"s1", "s2", "s3", "t1", "t2"}

\* the query parameters status and role: absent, empty, a status, the two
\* role filters and another word
ListFilters ==
    {<<Null, Null>>, <<"", Null>>, <<"in_progress", Null>>,
     <<Null, "owner">>, <<Null, "member">>, <<Null, "guide">>,
     <<"in_progress", "owner">>, <<"in_progress", "member">>}

ListRequest ==
    \/ \E u \in {"s1", "s2"} : CreateProject(u, Null) /\ UNCHANGED read
    \/ \E pid \in FrameProjectIds : SendTeamInvite("s1", pid, "s2@hub") /\ UNCHANGED read
    \/ \E iid \in DOMAIN team_invitations :
            RespondToTeamInvite("s2", iid, TRUE) /\ UNCHANGED read
    \/ \E pid \in FrameProjectIds :
            RequestToGuide("t1", pid, [deadline |-> "d1"]) /\ UNCHANGED read
    \/ \E u \in {"s1", "s2"}, rid \in DOMAIN guide_requests :
            RespondToGuideRequest(u, rid, [accept |-> TRUE]) /\ UNCHANGED read
    \/ \E u \in ListCallers, filter \in ListFilters : ListProjects(u, filter[1], filter[2])

NextList == ListRequest /\ FrameInBounds' /\ UNCHANGED calls

SpecList == Init /\ [][NextList]_vars

-----------------------------------------------------------------------------
(* Requests handled one after another: update_project by the owner, a      *)
(* member, the guide and a stranger                                        *)

UpdateRequest ==
    \/ CreateProject("s1", Null)
    \/ \E u \in EditCallers, pid \in PathProjectIds, upd \in ProjectUpdates :
            UpdateProject(u, pid, upd)
    \/ \E pid \in ProjectIds : SendTeamInvite("s1", pid, "s2@hub")
    \/ \E iid \in DOMAIN team_invitations : RespondToTeamInvite("s2", iid, TRUE)
    \/ \E pid \in ProjectIds : RemoveTeamMember("s1", pid, "s2")
    \/ \E pid \in ProjectIds : RequestToGuide("t1", pid, [deadline |-> "d1"])
    \/ \E rid \in DOMAIN guide_requests : RespondToGuideRequest("s1", rid, [accept |-> TRUE])

NextUpdate == UpdateRequest /\ InBounds' /\ UNCHANGED <<calls, read>>

SpecUpdate == Init /\ [][NextUpdate]_vars

-----------------------------------------------------------------------------
(* Requests in flight at the same time.  A handler in a slot advances one  *)
(* store call at a time; the checks the code makes between two store calls *)
(* on values it has already read belong to the step of the read.  An       *)
(* update_one or update_many applies to the document as it is in the store *)
(* at that moment, and changes nothing when its filter matches no document.*)

\* the handler raises HTTPException(status) or returns: nothing more is written
Finish(k, status) == calls' = [calls EXCEPT ![k] = [@ EXCEPT !.pc = "done", !.status = status]]

Goto(k, pc) == calls' = [calls EXCEPT ![k].pc = pc]

At(k, op, pc) == calls[k].op = op /\ calls[k].pc = pc

AllIdle == \A k \in Slots : calls[k] = Idle

\* the response leaves the server
Return(k) ==
    /\ calls[k].op # "idle" /\ calls[k].pc = "done"
    /\ response' = calls[k].status
    /\ calls' = [calls EXCEPT ![k] = Idle]
    /\ UNCHANGED db

(* respond_to_team_invite, 851-957                                         *)

BeginRespondToTeamInvite(k, u, iid, accept) ==
    /\ calls[k] = Idle
    /\ calls' = [calls EXCEPT ![k] =
            [op |-> "respond_to_team_invite", pc |-> "find_invitation", status |-> 0,
             u |-> u, iid |-> iid, accept |-> accept, current_team_size |-> 0]]
    /\ UNCHANGED <<db, response>>

\* 869-888: find_one on team_invitations and the checks on the invitation
InviteFindInvitation(k) ==
    /\ At(k, "respond_to_team_invite", "find_invitation")
    /\ LET c == calls[k]
       IN  IF c.iid = BadInvitationId THEN Finish(k, 400)
           ELSE IF c.iid \notin DOMAIN team_invitations THEN Finish(k, 404)
           ELSE IF team_invitations[c.iid].inviteeId # c.u THEN Finish(k, 403)
           ELSE IF InvitationResponded(team_invitations[c.iid]) THEN Finish(k, 400)
           ELSE Goto(k, "find_project")
    /\ UNCHANGED <<db, response>>

\* 899-913: find_one on projects and the team size re-check on the project read
InviteFindProject(k) ==
    /\ At(k, "respond_to_team_invite", "find_project")
    /\ LET c == calls[k]
           pid == c.iid[1]
       IN  IF pid \notin DOMAIN projects THEN Finish(k, 404)
           ELSE IF ~c.accept THEN Goto(k, "decline")
           ELSE IF TeamIsFull(projects[pid]) THEN Finish(k, 400)
           ELSE calls' = [calls EXCEPT ![k] =
                    [@ EXCEPT !.pc = "push_member",
                              !.current_team_size = 1 + Len(projects[pid].teamMembers)]]
    /\ UNCHANGED <<db, response>>

\* 923-929: update_one on projects
InvitePushMember(k) ==
    /\ At(k, "respond_to_team_invite", "push_member")
    /\ LET pid == calls[k].iid[1]
       IN  projects' = IF pid \in DOMAIN projects
                       THEN [projects EXCEPT ![pid].teamMembers = PushMember(@, calls[k].u)]
                       ELSE projects
    /\ Goto(k, "accept_invitation")
    /\ UNCHANGED <<team_invitations, guide_requests, issued, response>>

\* 932-940 and 943-951: update_one on team_invitations
InviteMark(k) ==
    /\ \/ At(k, "respond_to_team_invite", "accept_invitation")
       \/ At(k, "respond_to_team_invite", "decline")
    /\ LET iid == calls[k].iid
           status == IF calls[k].pc = "decline" THEN "declined" ELSE "accepted"
       IN  team_invitations' = IF iid \in DOMAIN team_invitations
                               THEN MarkInvitation(team_invitations, iid, status)
                               ELSE team_invitations
    /\ Goto(k, "find_updated")
    /\ UNCHANGED <<projects, guide_requests, issued, response>>

\* 954-957: find_one on team_invitations; None["_id"] raises TypeError
InviteFindUpdated(k) ==
    /\ At(k, "respond_to_team_invite", "find_updated")
    /\ IF calls[k].iid \in DOMAIN team_invitations THEN Finish(k, 200) ELSE Finish(k, 500)
    /\ UNCHANGED <<db, response>>

(* respond_to_guide_request, 1209-1349                                     *)

BeginRespondToGuideRequest(k, u, rid, response_data) ==
    /\ calls[k] = Idle
    /\ calls' = [calls EXCEPT ![k] =
            [op |-> "respond_to_guide_request", pc |-> "find_request", status |-> 0,
             u |-> u, rid |-> rid, response_data |-> response_data,
             guide_request |-> Null]]
    /\ UNCHANGED <<db, response>>

\* 1227-1254: find_one on guide_requests and the checks on the request
GuideFindRequest(k) ==
    /\ At(k, "respond_to_guide_request", "find_request")
    /\ LET c == calls[k]
       IN  IF c.rid = BadRequestId THEN Finish(k, 400)
           ELSE IF c.rid \notin DOMAIN guide_requests THEN Finish(k, 404)
           ELSE IF NotRequestOwner(guide_requests[c.rid], c.u) THEN Finish(k, 403)
           ELSE IF RequestResponded(guide_requests[c.rid]) THEN Finish(k, 400)
           ELSE IF ~c.response_data.accept /\ ReasonMissing(c.response_data)
           THEN Finish(k, 400)
           ELSE calls' = [calls EXCEPT ![k] =
                    [@ EXCEPT !.pc = IF c.response_data.accept
                                     THEN "find_project" ELSE "decline",
                              !.guide_request = guide_requests[c.rid]]]
    /\ UNCHANGED <<db, response>>

\* 1256-1265: update_one on guide_requests
GuideDecline(k) ==
    /\ At(k, "respond_to_guide_request", "decline")
    /\ LET rid == calls[k].rid
       IN  guide_requests' =
                IF rid \in DOMAIN guide_requests
                THEN DeclineRequest(guide_requests, rid,
                                    calls[k].response_data.declineReason)
                ELSE guide_requests
    /\ Goto(k, "find_updated")
    /\ UNCHANGED <<projects, team_invitations, issued, response>>

\* 1277-1299: find_one on projects and the guide re-check on the project read
GuideFindProject(k) ==
    /\ At(k, "respond_to_guide_request", "find_project")
    /\ LET pid == calls[k].guide_request.projectId
       IN  IF pid \notin DOMAIN projects THEN Finish(k, 404)
           ELSE IF HasGuide(projects[pid]) THEN Finish(k, 400)
           ELSE Goto(k, "update_project")
    /\ UNCHANGED <<db, response>>

\* 1302-1316: update_one on projects
GuideUpdateProject(k) ==
    /\ At(k, "respond_to_guide_request", "update_project")
    /\ LET pid == calls[k].guide_request.projectId
       IN  projects' = IF pid \in DOMAIN projects
                       THEN [projects EXCEPT ![pid] = AssignGuide(@, calls[k].guide_request)]
                       ELSE projects
    /\ Goto(k, "update_request")
    /\ UNCHANGED <<team_invitations, guide_requests, issued, response>>

\* 1319-1327: update_one on guide_requests
GuideUpdateRequest(k) ==
    /\ At(k, "respond_to_guide_request", "update_request")
    /\ LET rid == calls[k].rid
       IN  guide_requests' = IF rid \in DOMAIN guide_requests
                             THEN AcceptRequest(guide_requests, rid)
                             ELSE guide_requests
    /\ Goto(k, "decline_others")
    /\ UNCHANGED <<projects, team_invitations, issued, response>>

\* 1330-1343: update_many on guide_requests
GuideDeclineOthers(k) ==
    /\ At(k, "respond_to_guide_request", "decline_others")
    /\ guide_requests' =
            DeclineOthers(guide_requests, calls[k].guide_request.projectId, calls[k].rid)
    /\ Goto(k, "find_updated")
    /\ UNCHANGED <<projects, team_invitations, issued, response>>

\* 1346-1349: find_one on guide_requests; None["_id"] raises TypeError
GuideFindUpdated(k) ==
    /\ At(k, "respond_to_guide_request", "find_updated")
    /\ IF calls[k].rid \in DOMAIN guide_requests THEN Finish(k, 200) ELSE Finish(k, 500)
    /\ UNCHANGED <<db, response>>

(* update_team_member, 1017-1090                                          *)

BeginUpdateTeamMember(k, u, pid, user_id, update_data) ==
    /\ calls[k] = Idle
    /\ calls' = [calls EXCEPT ![k] =
            [op |-> "update_team_member", pc |-> "find_project", status |-> 0,
             u |-> u, pid |-> pid, user_id |-> user_id, update_data |-> update_data,
             team_members |-> <<>>]]
    /\ UNCHANGED <<db, response>>

\* 1036-1073: find_one on projects, the checks on the project read and the
\* changes made to the list read from it
MemberFindProject(k) ==
    /\ At(k, "update_team_member", "find_project")
    /\ LET c == calls[k]
       IN  IF c.pid = BadId THEN Finish(k, 400)
           ELSE IF c.pid \notin DOMAIN projects THEN Finish(k, 404)
           ELSE IF NotOwner(projects[c.pid], c.u) THEN Finish(k, 403)
           ELSE IF ~IsMember(projects[c.pid], c.user_id) THEN Finish(k, 404)
           ELSE LET team_members == projects[c.pid].teamMembers
                    member_index == MemberIndex(team_members, c.user_id)
                IN  calls' = [calls EXCEPT ![k] =
                        [@ EXCEPT !.pc = "set_members",
                                  !.team_members =
                                      UpdatedMembers(team_members, member_index,
                                                     c.update_data)]]
    /\ UNCHANGED <<db, response>>

\* 1076-1084: update_one on projects with the whole list
MemberSetMembers(k) ==
    /\ At(k, "update_team_member", "set_members")
    /\ LET pid == calls[k].pid
       IN  projects' = IF pid \in DOMAIN projects
                       THEN [projects EXCEPT ![pid].teamMembers = calls[k].team_members]
                       ELSE projects
    /\ Goto(k, "find_updated")
    /\ UNCHANGED <<team_invitations, guide_requests, issued, response>>

\* 1087-1090: find_one on projects; None["_id"] raises TypeError
MemberFindUpdated(k) ==
    /\ At(k, "update_team_member", "find_updated")
    /\ IF calls[k].pid \in DOMAIN projects THEN Finish(k, 200) ELSE Finish(k, 500)
    /\ UNCHANGED <<db, response>>

(* update_milestone, 621-707                                               *)

BeginUpdateMilestone(k, u, pid, milestone_data) ==
    /\ calls[k] = Idle
    /\ calls' = [calls EXCEPT ![k] =
            [op |-> "update_milestone", pc |-> "find_project", status |-> 0,
             u |-> u, pid |-> pid, milestone_data |-> milestone_data,
             milestones |-> <<>>, progress |-> 0]]
    /\ UNCHANGED <<db, response>>

\* 639-688: the validation of the body, find_one on projects, the checks on
\* the project read, the change made to the array read from it and the
\* progress calculated from that array
MilestoneFindProject(k) ==
    /\ At(k, "update_milestone", "find_project")
    /\ LET c == calls[k]
       IN  IF ~ValidMilestoneRequest(c.milestone_data) THEN Finish(k, 422)
           ELSE IF c.pid = BadId THEN Finish(k, 400)
           ELSE IF c.pid \notin DOMAIN projects THEN Finish(k, 404)
           ELSE LET project == projects[c.pid]
                    is_owner == project.ownerId = c.u
                    is_member == IsMember(project, c.u)
                    is_guide == project.guideId = c.u
                    found == MilestoneIndex(project.milestones,
                                            c.milestone_data.milestoneOrder)
                    milestones == [project.milestones EXCEPT
                                        ![found].status = c.milestone_data.status]
                IN  IF ~(is_owner \/ is_member \/ is_guide) THEN Finish(k, 403)
                    ELSE IF StudentCompletes(c.u, c.milestone_data.status)
                    THEN Finish(k, 403)
                    ELSE IF c.milestone_data.status \notin MilestoneStatuses
                    THEN Finish(k, 400)
                    ELSE IF found = 0 THEN Finish(k, 400)
                    ELSE calls' = [calls EXCEPT ![k] =
                            [@ EXCEPT !.pc = "set_milestones",
                                      !.milestones = milestones,
                                      !.progress = Progress(milestones)]]
    /\ UNCHANGED <<db, response>>

\* 691-701: update_one on projects with the array and the progress
MilestoneSetMilestones(k) ==
    /\ At(k, "update_milestone", "set_milestones")
    /\ LET pid == calls[k].pid
       IN  projects' = IF pid \in DOMAIN projects
                       THEN [projects EXCEPT ![pid] =
                                [@ EXCEPT !.milestones = calls[k].milestones,
                                          !.progress = calls[k].progress]]
                       ELSE projects
    /\ Goto(k, "find_updated")
    /\ UNCHANGED <<team_invitations, guide_requests, issued, response>>

\* 704-707: find_one on projects; None["_id"] raises TypeError
MilestoneFindUpdated(k) ==
    /\ At(k, "update_milestone", "find_updated")
    /\ IF calls[k].pid \in DOMAIN projects THEN Finish(k, 200) ELSE Finish(k, 500)
    /\ UNCHANGED <<db, response>>

(* delete_project, 582-618                                                 *)

BeginDeleteProject(k, u, pid) ==
    /\ calls[k] = Idle
    /\ calls' = [calls EXCEPT ![k] =
            [op |-> "delete_project", pc |-> "find_project", status |-> 0,
             u |-> u, pid |-> pid]]
    /\ UNCHANGED <<db, response>>

\* 590-611: find_one on projects and the checks on the project read
DeleteFindProject(k) ==
    /\ At(k, "delete_project", "find_project")
    /\ LET c == calls[k]
       IN  IF c.pid = BadId THEN Finish(k, 400)
           ELSE IF c.pid \notin DOMAIN projects THEN Finish(k, 404)
           ELSE IF NotOwner(projects[c.pid], c.u) THEN Finish(k, 403)
           ELSE Goto(k, "delete_project")
    /\ UNCHANGED <<db, response>>

\* 614: delete_one on projects
DeleteTheProject(k) ==
    /\ At(k, "delete_project", "delete_project")
    /\ projects' = Without(projects, {calls[k].pid} \cap DOMAIN projects)
    /\ Goto(k, "delete_invitations")
    /\ UNCHANGED <<team_invitations, guide_requests, issued, response>>

\* 615: delete_many on team_invitations
DeleteInvitations(k) ==
    /\ At(k, "delete_project", "delete_invitations")
    /\ team_invitations' = DeleteRelated(team_invitations, calls[k].pid)
    /\ Goto(k, "delete_requests")
    /\ UNCHANGED <<projects, guide_requests, issued, response>>

\* 616-618: delete_many on guide_requests and the return
DeleteRequests(k) ==
    /\ At(k, "delete_project", "delete_requests")
    /\ guide_requests' = DeleteRelated(guide_requests, calls[k].pid)
    /\ Finish(k, 200)
    /\ UNCHANGED <<projects, team_invitations, issued, response>>

(* send_team_invite, 714-820                                               *)

BeginSendTeamInvite(k, u, pid, inviteeEmail) ==
    /\ calls[k] = Idle
    /\ calls' = [calls EXCEPT ![k] =
            [op |-> "send_team_invite", pc |-> "find_project", status |-> 0,
             u |-> u, pid |-> pid, inviteeEmail |-> inviteeEmail,
             project |-> Null, invitee_id |-> Null, inserted_id |-> Null]]
    /\ UNCHANGED <<db, response>>

\* 722-744: find_one on projects and the owner check on the project read
SendFindProject(k) ==
    /\ At(k, "send_team_invite", "find_project")
    /\ LET c == calls[k]
       IN  IF c.pid = BadId THEN Finish(k, 400)
           ELSE IF c.pid \notin DOMAIN projects THEN Finish(k, 404)
           ELSE IF NotOwner(projects[c.pid], c.u) THEN Finish(k, 403)
           ELSE calls' = [calls EXCEPT ![k] =
                    [@ EXCEPT !.pc = "find_invitee", !.project = projects[c.pid]]]
    /\ UNCHANGED <<db, response>>

\* 747-789: find_one on users and the checks on the invitee and on the
\* project read at 732
SendFindInvitee(k) ==
    /\ At(k, "send_team_invite", "find_invitee")
    /\ LET c == calls[k]
           project == c.project
           invitee_id == FindUserByEmail(Lower(c.inviteeEmail))
       IN  IF invitee_id = Null THEN Finish(k, 404)
           ELSE IF users[invitee_id].role # "Student" THEN Finish(k, 400)
           ELSE IF users[invitee_id].department # project.department THEN Finish(k, 400)
           ELSE IF TeamIsFull(project) THEN Finish(k, 400)
           ELSE IF project.ownerId = invitee_id THEN Finish(k, 400)
           ELSE IF IsMember(project, invitee_id) THEN Finish(k, 400)
           ELSE calls' = [calls EXCEPT ![k] =
                    [@ EXCEPT !.pc = "find_existing", !.invitee_id = invitee_id]]
    /\ UNCHANGED <<db, response>>

\* 792-801: find_one on team_invitations for a pending invitation
SendFindExisting(k) ==
    /\ At(k, "send_team_invite", "find_existing")
    /\ IF PendingInvitationExists(team_invitations, calls[k].pid, calls[k].invitee_id)
       THEN Finish(k, 400)
       ELSE Goto(k, "insert")
    /\ UNCHANGED <<db, response>>

\* 804-816: insert_one on team_invitations
SendInsert(k) ==
    /\ At(k, "send_team_invite", "insert")
    /\ LET c == calls[k]
           id == NewInvitationId(c.pid, c.invitee_id)
           invitation_doc ==
               [projectId |-> c.pid,
                inviterId |-> c.u,
                inviteeId |-> c.invitee_id,
                status |-> "pending",
                respondedAt |-> Null]
       IN  /\ team_invitations' = (id :> invitation_doc) @@ team_invitations
           /\ issued' = [issued EXCEPT !.team_invitations = @ \cup {id}]
           /\ calls' = [calls EXCEPT ![k] =
                    [@ EXCEPT !.pc = "find_created", !.inserted_id = id]]
    /\ UNCHANGED <<projects, guide_requests, response>>

\* 817-820: find_one on team_invitations; None["_id"] raises TypeError
SendFindCreated(k) ==
    /\ At(k, "send_team_invite", "find_created")
    /\ IF calls[k].inserted_id \in DOMAIN team_invitations
       THEN Finish(k, 201) ELSE Finish(k, 500)
    /\ UNCHANGED <<db, response>>

(* send_guide_request, 1098-1175                                           *)

BeginSendGuideRequest(k, fields, u, pid, json) ==
    /\ calls[k] = Idle
    /\ calls' = [calls EXCEPT ![k] =
            [op |-> "send_guide_request", pc |-> "find_project", status |-> 0,
             u |-> u, pid |-> pid, request_data |-> ParseBody(fields, json),
             project |-> Null, inserted_id |-> Null]]
    /\ UNCHANGED <<db, response>>

\* 1106-1142: the role check, find_one on projects and the checks on the
\* project read
AskFindProject(k) ==
    /\ At(k, "send_guide_request", "find_project")
    /\ LET c == calls[k]
       IN  IF users[c.u].role # "Teacher" THEN Finish(k, 403)
           ELSE IF c.pid = BadId THEN Finish(k, 400)
           ELSE IF c.pid \notin DOMAIN projects THEN Finish(k, 404)
           ELSE IF HasGuide(projects[c.pid]) THEN Finish(k, 400)
           ELSE IF projects[c.pid].department # users[c.u].department THEN Finish(k, 403)
           ELSE calls' = [calls EXCEPT ![k] =
                    [@ EXCEPT !.pc = "find_existing", !.project = projects[c.pid]]]
    /\ UNCHANGED <<db, response>>

\* 1145-1169: find_one on guide_requests for a pending request, then the
\* request document is built: request_data.deadline raises AttributeError
\* when the request model has no such field
AskFindExisting(k) ==
    /\ At(k, "send_guide_request", "find_existing")
    /\ LET c == calls[k]
       IN  IF PendingRequestExists(guide_requests, c.pid, c.u) THEN Finish(k, 400)
           ELSE IF "deadline" \notin DOMAIN c.request_data THEN Finish(k, 500)
           ELSE Goto(k, "insert")
    /\ UNCHANGED <<db, response>>

\* 1171: insert_one on guide_requests
AskInsert(k) ==
    /\ At(k, "send_guide_request", "insert")
    /\ LET c == calls[k]
           id == NewRequestId(c.pid, c.u)
           request_doc ==
               [projectId |-> c.pid,
                teacherId |-> c.u,
                ownerId |-> c.project.ownerId,
                status |-> "pending",
                declineReason |-> Null,
                deadline |-> c.request_data.deadline,
                respondedAt |-> Null]
       IN  /\ guide_requests' = (id :> request_doc) @@ guide_requests
           /\ issued' = [issued EXCEPT !.guide_requests = @ \cup {id}]
           /\ calls' = [calls EXCEPT ![k] =
                    [@ EXCEPT !.pc = "find_created", !.inserted_id = id]]
    /\ UNCHANGED <<projects, team_invitations, response>>

\* 1172-1175: find_one on guide_requests; None["_id"] raises TypeError
AskFindCreated(k) ==
    /\ At(k, "send_guide_request", "find_created")
    /\ IF calls[k].inserted_id \in DOMAIN guide_requests
       THEN Finish(k, 201) ELSE Finish(k, 500)
    /\ UNCHANGED <<db, response>>

-----------------------------------------------------------------------------
(* Two responses to guide requests in flight.  Projects and guide requests *)
(* are created while no request is in flight.                              *)

GuideRaceResponses == {[accept |-> TRUE], [accept |-> FALSE, declineReason |-> "busy"]}

GuideRaceSetup ==
    /\ AllIdle
    /\ \/ CreateProject("s1", Null)
       \/ \E u \in {"t1", "t2"} : RequestToGuide(u, "p1", [deadline |-> "d1"])
    /\ UNCHANGED calls

GuideRaceStep(k) ==
    \/ \E rid \in DOMAIN guide_requests, body \in GuideRaceResponses :
            BeginRespondToGuideRequest(k, "s1", rid, body)
    \/ GuideFindRequest(k)
    \/ GuideDecline(k)
    \/ GuideFindProject(k)
    \/ GuideUpdateProject(k)
    \/ GuideUpdateRequest(k)
    \/ GuideDeclineOthers(k)
    \/ GuideFindUpdated(k)
    \/ Return(k)

NextGuideRace ==
    (GuideRaceSetup \/ \E k \in Slots : GuideRaceStep(k)) /\ InBounds' /\ UNCHANGED read

SpecGuideRace == Init /\ [][NextGuideRace]_vars

(* Two responses to team invitations in flight.  The project and the       *)
(* invitations are created while no request is in flight.                  *)

\* the invitees whose responses are in flight together
RaceInvitees == {"s4", "s5"}

InviteRaceSetup ==
    /\ AllIdle
    /\ \/ CreateProject("s1", Null)
       \/ \E e \in {"s2@hub", "s3@hub", "s4@hub", "S5@HUB"} : SendTeamInvite("s1", "p1", e)
       \/ \E iid \in DOMAIN team_invitations :
            /\ team_invitations[iid].inviteeId \notin RaceInvitees
            /\ RespondToTeamInvite(team_invitations[iid].inviteeId, iid, TRUE)
    /\ UNCHANGED calls

InviteRaceStep(k) ==
    \/ \E iid \in DOMAIN team_invitations, accept \in BOOLEAN :
            /\ team_invitations[iid].inviteeId \in RaceInvitees
            /\ BeginRespondToTeamInvite(k, team_invitations[iid].inviteeId, iid, accept)
    \/ InviteFindInvitation(k)
    \/ InviteFindProject(k)
    \/ InvitePushMember(k)
    \/ InviteMark(k)
    \/ InviteFindUpdated(k)
    \/ Return(k)

NextInviteRace ==
    (InviteRaceSetup \/ \E k \in Slots : InviteRaceStep(k)) /\ InBounds' /\ UNCHANGED read

SpecInviteRace == Init /\ [][NextInviteRace]_vars

(* One response to a team invitation in flight while other requests are    *)
(* handled: each of those runs between two store calls of the response.    *)

\* the invitee whose response is in flight
LateInvitee == "s5"

GoneRequest ==
    \/ CreateProject("s1", Null)
    \/ \E e \in {"s2@hub", "s3@hub", "s4@hub", "S5@HUB"} : SendTeamInvite("s1", "p1", e)
    \/ \E iid \in DOMAIN team_invitations :
            /\ team_invitations[iid].inviteeId # LateInvitee
            /\ RespondToTeamInvite(team_invitations[iid].inviteeId, iid, TRUE)
    \/ DeleteProject("s1", "p1")

GoneStep(k) ==
    \/ \E iid \in DOMAIN team_invitations, accept \in BOOLEAN :
            /\ team_invitations[iid].inviteeId = LateInvitee
            /\ BeginRespondToTeamInvite(k, LateInvitee, iid, accept)
    \/ InviteFindInvitation(k)
    \/ InviteFindProject(k)
    \/ InvitePushMember(k)
    \/ InviteMark(k)
    \/ InviteFindUpdated(k)
    \/ Return(k)

NextGone ==
    ((GoneRequest /\ UNCHANGED calls) \/ GoneStep(1)) /\ InBounds' /\ UNCHANGED read

SpecGone == Init /\ [][NextGone]_vars

(* A response to a team invitation and an update of a team member in       *)
(* flight.  The project, the invitations and the first member are there    *)
(* before either starts.                                                   *)

\* the member whose entry the owner updates
FirstMember == "s2"

MemberRaceSetup ==
    /\ AllIdle
    /\ \/ CreateProject("s1", Null)
       \/ \E e \in {"s2@hub", "s4@hub"} : SendTeamInvite("s1", "p1", e)
       \/ \E iid \in DOMAIN team_invitations :
            /\ team_invitations[iid].inviteeId = FirstMember
            /\ RespondToTeamInvite(FirstMember, iid, TRUE)
    /\ UNCHANGED calls

MemberRaceStep(k) ==
    \/ \E iid \in DOMAIN team_invitations, accept \in BOOLEAN :
            /\ team_invitations[iid].inviteeId # FirstMember
            /\ BeginRespondToTeamInvite(k, team_invitations[iid].inviteeId, iid, accept)
    \/ \E u \in {"s1", "s2"}, upd \in {[isLeader |-> TRUE], [role |-> "dev"]} :
            BeginUpdateTeamMember(k, u, "p1", FirstMember, upd)
    \/ InviteFindInvitation(k)
    \/ InviteFindProject(k)
    \/ InvitePushMember(k)
    \/ InviteMark(k)
    \/ InviteFindUpdated(k)
    \/ MemberFindProject(k)
    \/ MemberSetMembers(k)
    \/ MemberFindUpdated(k)
    \/ Return(k)

NextMemberRace ==
    (MemberRaceSetup \/ \E k \in Slots : MemberRaceStep(k)) /\ InBounds' /\ UNCHANGED read

SpecMemberRace == Init /\ [][NextMemberRace]_vars

(* Updates of milestones and acceptances of guide requests in flight.  The *)
(* project and the guide requests are created while no request is in       *)
(* flight.                                                                 *)

MilestoneRaceCallers == {"s1", "t1", "t2"}

MilestoneRaceBodies == [milestoneOrder : {1, 2}, status : {"in_progress", "completed"}]

MilestoneRaceSetup ==
    /\ AllIdle
    /\ \/ CreateProject("s1", Null)
       \/ \E u \in {"t1", "t2"} : RequestToGuide(u, "p1", [deadline |-> "d1"])
    /\ UNCHANGED calls

MilestoneRaceStep(k) ==
    \/ \E rid \in DOMAIN guide_requests :
            BeginRespondToGuideRequest(k, "s1", rid, [accept |-> TRUE])
    \/ \E u \in MilestoneRaceCallers, body \in MilestoneRaceBodies :
            BeginUpdateMilestone(k, u, "p1", body)
    \/ GuideFindRequest(k)
    \/ GuideFindProject(k)
    \/ GuideUpdateProject(k)
    \/ GuideUpdateRequest(k)
    \/ GuideDeclineOthers(k)
    \/ GuideFindUpdated(k)
    \/ MilestoneFindProject(k)
    \/ MilestoneSetMilestones(k)
    \/ MilestoneFindUpdated(k)
    \/ Return(k)

NextMilestoneRace ==
    (MilestoneRaceSetup \/ \E k \in Slots : MilestoneRaceStep(k))
        /\ InBounds' /\ UNCHANGED read

SpecMilestoneRace == Init /\ [][NextMilestoneRace]_vars

(* A deletion of a project in flight with invitations and guide requests   *)
(* being sent for it.  The project and a first invitation are created      *)
(* while no request is in flight.                                          *)

\* the request model of send_guide_request as the repository has it, and
\* the one that carries the proposed deadline
DeleteRaceFields == {SendGuideRequestRequestFields, RequestToGuideFields}

DeleteRaceSetup ==
    /\ AllIdle
    /\ \/ CreateProject("s1", Null)
       \/ SendTeamInvite("s1", "p1", "s2@hub")
    /\ UNCHANGED calls

DeleteRaceStep(k) ==
    \/ \E u \in {"s1", "s2"} : BeginDeleteProject(k, u, "p1")
    \/ \E e \in {"s2@hub", "s4@hub"} : BeginSendTeamInvite(k, "s1", "p1", e)
    \/ \E u \in {"t1", "s2"}, fields \in DeleteRaceFields :
            BeginSendGuideRequest(k, fields, u, "p1", [deadline |-> "d1"])
    \/ DeleteFindProject(k)
    \/ DeleteTheProject(k)
    \/ DeleteInvitations(k)
    \/ DeleteRequests(k)
    \/ SendFindProject(k)
    \/ SendFindInvitee(k)
    \/ SendFindExisting(k)
    \/ SendInsert(k)
    \/ SendFindCreated(k)
    \/ AskFindProject(k)
    \/ AskFindExisting(k)
    \/ AskInsert(k)
    \/ AskFindCreated(k)
    \/ Return(k)

NextDeleteRace ==
    (DeleteRaceSetup \/ \E k \in Slots : DeleteRaceStep(k)) /\ InBounds' /\ UNCHANGED read

SpecDeleteRace == Init /\ [][NextDeleteRace]_vars

-----------------------------------------------------------------------------
(* Claims about requests handled one after another                         *)

RequestsOf(pid, status) ==
    {rid \in DOMAIN guide_requests :
        guide_requests[rid].projectId = pid /\ guide_requests[rid].status = status}

C4_TeamSize == \A pid \in DOMAIN projects : 1 + Len(projects[pid].teamMembers) <= 4

\* a full team (owner and three members), an invitation still pending for a
\* fourth student, and a request just refused with 400
C4_Witness ==
    \E pid \in DOMAIN projects :
        /\ 1 + Len(projects[pid].teamMembers) = 4
        /\ \E iid \in DOMAIN team_invitations :
                /\ team_invitations[iid].projectId = pid
                /\ team_invitations[iid].status = "pending"
        /\ response = 400

Leaders(pid) ==
    {i \in 1..Len(projects[pid].teamMembers) : projects[pid].teamMembers[i].isLeader}

\* C7: at most one team member of a project has isLeader true (SpecTeam).
C7_OneLeader == \A pid \in DOMAIN projects : Cardinality(Leaders(pid)) <= 1

\* three members, the leader being the last to have joined
C7_Witness ==
    \E pid \in DOMAIN projects :
        /\ Len(projects[pid].teamMembers) = 3
        /\ Leaders(pid) = {3}

PendingInvitations(pid, invitee) ==
    {iid \in DOMAIN team_invitations :
        /\ team_invitations[iid].projectId = pid
        /\ team_invitations[iid].inviteeId = invitee
        /\ team_invitations[iid].status = "pending"}

C9_OnePending ==
    \A pid \in ProjectIds, invitee \in UserIds :
        Cardinality(PendingInvitations(pid, invitee)) <= 1

C9_SecondInviteRefused ==
    \A pid \in DOMAIN projects, invitee \in Invitees, e \in Emails :
        (/\ Lower(e) = invitee \o "@hub"
         /\ PendingInvitations(pid, invitee) # {}
         /\ SendTeamInvite(projects[pid].ownerId, pid, e))
        => response' = 400 /\ team_invitations' = team_invitations

C10_SecondResponseRefused ==
    \A iid \in DOMAIN team_invitations, accept \in BOOLEAN :
        (/\ team_invitations[iid].status # "pending"
         /\ RespondToTeamInvite(team_invitations[iid].inviteeId, iid, accept))
        => /\ response' = 400
           /\ team_invitations' = team_invitations
           /\ projects' = projects

\* C10: a RespondToInvitation by the invitee on an invitation that was
\* already responded to, with either accept value, answers 400 and leaves
\* the invitation (status, respondedAt) and the projects (teamMembers) as
\* they were (SpecTeam).
C10_RespondOnce == [][C10_SecondResponseRefused]_vars

\* an accepted invitation whose invitee is in the team, stamped, and a
\* request just refused with 400
C10_Witness ==
    \E iid \in DOMAIN team_invitations :
        /\ team_invitations[iid].status = "accepted"
        /\ team_invitations[iid].respondedAt # Null
        /\ team_invitations[iid].projectId \in DOMAIN projects
        /\ \E i \in 1..Len(projects[team_invitations[iid].projectId].teamMembers) :
                projects[team_invitations[iid].projectId].teamMembers[i].userId =
                    team_invitations[iid].inviteeId
        /\ response = 400

-----------------------------------------------------------------------------
(* Claims about requests in flight at the same time                        *)

PushedIntoLastSlot(k) ==
    /\ calls[k].op = "respond_to_team_invite"
    /\ calls[k].accept
    /\ calls[k].current_team_size = TeamCap - 1
    /\ calls[k].pc \in {"accept_invitation", "find_updated", "done"}

\* two acceptances in flight for different invitations to one project, both
\* having passed the re-check with one free slot and both having appended
BothPushed(k1, k2) ==
    /\ k1 # k2
    /\ PushedIntoLastSlot(k1) /\ PushedIntoLastSlot(k2)
    /\ calls[k1].iid # calls[k2].iid
    /\ calls[k1].iid[1] = calls[k2].iid[1]

\* C5: when two acceptances of different pending invitations to one project
\* have both passed the team size re-check with one free slot and have both
\* appended their member, the team has more than 4 people (SpecInviteRace).
C5_BothAppend ==
    \A k1, k2 \in Slots :
        BothPushed(k1, k2) =>
            1 + Len(projects[calls[k1].iid[1]].teamMembers) > TeamCap

\* both acceptances have finished with 200 and the team has 5 people
C5_Witness ==
    \E k1, k2 \in Slots :
        /\ BothPushed(k1, k2)
        /\ calls[k1].pc = "done" /\ calls[k1].status = 200
        /\ calls[k2].pc = "done" /\ calls[k2].status = 200
        /\ 1 + Len(projects[calls[k1].iid[1]].teamMembers) = TeamCap + 1
        /\ team_invitations[calls[k1].iid].status = "accepted"
        /\ team_invitations[calls[k2].iid].status = "accepted"

-----------------------------------------------------------------------------
(* Claims about responses to guide requests                                *)

\* a response by the owner to a request that is no longer pending answers
\* 400 and writes nothing
C11_RespondedRefused ==
    \A rid \in DOMAIN guide_requests, body \in GuideResponses :
        (/\ guide_requests[rid].status # "pending"
         /\ RespondToGuideRequest(guide_requests[rid].ownerId, rid, body))
        => (response' = 400 /\ UNCHANGED db)

MilestoneArrays ==
    {[i \in 1..4 |-> [InitialMilestones[i] EXCEPT !.status = st[i]]] :
        st \in [1..4 -> MilestoneStatuses]}

\* the status of a milestone after a guide is accepted
StartedStatus(status) == IF status = "not_started" THEN "in_progress" ELSE status

\* the array update of the acceptance, on every milestone array
C13_StartMilestones ==
    \A ms \in MilestoneArrays : \A i \in 1..4 :
        StartMilestones(ms)[i] = [ms[i] EXCEPT !.status = StartedStatus(ms[i].status)]

\* a successful acceptance of a pending request by the owner
C13_AcceptEffect ==
    \A rid \in DOMAIN guide_requests :
        LET r == guide_requests[rid]
            pid == r.projectId
        IN  (/\ r.status = "pending"
             /\ RespondToGuideRequest(r.ownerId, rid, [accept |-> TRUE])
             /\ response' = 200)
            => /\ projects'[pid].guideId = r.teacherId
               /\ projects'[pid].deadline = r.deadline
               /\ projects'[pid].status = "in_progress"
               /\ \A i \in 1..4 :
                    projects'[pid].milestones[i] =
                        [projects[pid].milestones[i] EXCEPT
                            !.status = StartedStatus(projects[pid].milestones[i].status)]
               /\ guide_requests'[rid].status = "accepted"

C12_AcceptFrame ==
    \A rid \in DOMAIN guide_requests :
        LET r == guide_requests[rid]
        IN  (/\ r.status = "pending"
             /\ RespondToGuideRequest(r.ownerId, rid, [accept |-> TRUE])
             /\ response' = 200)
            => /\ DOMAIN guide_requests' = DOMAIN guide_requests
               /\ \A id \in DOMAIN guide_requests \ {rid} :
                    IF /\ guide_requests[id].projectId = r.projectId
                       /\ guide_requests[id].status = "pending"
                    THEN /\ guide_requests'[id].status = "declined"
                         /\ guide_requests'[id].declineReason = "Another guide was accepted"
                         /\ guide_requests'[id].respondedAt # Null
                         /\ guide_requests'[id].projectId = guide_requests[id].projectId
                         /\ guide_requests'[id].teacherId = guide_requests[id].teacherId
                    ELSE guide_requests'[id] = guide_requests[id]

-----------------------------------------------------------------------------
(* Claims about who may act on a project                                   *)

\* a Student who asks for completed is answered 403 and nothing is written
C14_StudentRefused ==
    \A pid \in DOMAIN projects, u \in OwnerRouteCallers, body \in OfferMilestoneUpdates :
        (/\ users[u].role = "Student"
         /\ body.status = "completed"
         /\ UpdateMilestone(u, pid, body))
        => (response' = 403 /\ UNCHANGED db)

\* a step that makes a milestone completed is an UpdateMilestone of the
\* project's guide
C14_GuideCompletes ==
    \A pid \in DOMAIN projects \cap DOMAIN projects' : \A i \in 1..4 :
        (/\ projects[pid].milestones[i].status # "completed"
         /\ projects'[pid].milestones[i].status = "completed")
        => /\ HasGuide(projects[pid])
           /\ \E body \in OfferMilestoneUpdates :
                UpdateMilestone(projects[pid].guideId, pid, body)

-----------------------------------------------------------------------------
(* Claims about team invitations                                           *)

\* the user whose stored e-mail is the given one, compared without case
\* (the e-mail of user u is u \o "@hub"), or Null
UserWithEmail ==
    [e \in Emails |->
        LET lowered == IF e = "S5@HUB" THEN "s5@hub" ELSE e
            found == {u \in UserIds : u \o "@hub" = lowered}
        IN  IF found = {} THEN Null ELSE CHOOSE u \in found : TRUE]

\* an invitation by the owner to an unknown e-mail answers 404; to a user
\* who is not a Student, is of another department, is the owner or a member,
\* or when the team has 4 people, it answers 400; nothing is written
C15_InviteRefused ==
    \A pid \in DOMAIN projects, e \in Emails :
        LET project == projects[pid]
            invitee == UserWithEmail[e]
        IN  IF invitee = Null
            THEN \/ response' = 404 /\ UNCHANGED db
                 \/ ~SendTeamInvite(project.ownerId, pid, e)
            ELSE \/ response' = 400 /\ UNCHANGED db
                 \/ ~(\/ users[invitee].role # "Student"
                      \/ users[invitee].department # project.department
                      \/ 1 + Len(project.teamMembers) >= 4
                      \/ invitee = project.ownerId
                      \/ \E i \in 1..Len(project.teamMembers) :
                            project.teamMembers[i].userId = invitee)
                 \/ ~SendTeamInvite(project.ownerId, pid, e)

\* C15: InviteTeamMember by the owner fails with 400 and creates no
\* invitation when the invitee is not a Student, is of another department,
\* is the owner or already a member, or the team has 4 people; an unknown
\* invitee e-mail fails with 404 (SpecTeam).
C15_InviteChecks == [][C15_InviteRefused]_vars

\* a full team with no invitation pending, after a request refused with 400
C15_Witness ==
    \E pid \in DOMAIN projects :
        /\ Len(projects[pid].teamMembers) = 3
        /\ \A iid \in DOMAIN team_invitations : team_invitations[iid].status = "accepted"
        /\ Cardinality(DOMAIN team_invitations) = 3
        /\ response = 400

\* a response by the invitee to a pending invitation, the team having room
\* when it is an acceptance
C16_RespondEffect ==
    \A iid \in DOMAIN team_invitations, accept \in BOOLEAN :
        LET invitation == team_invitations[iid]
            pid == invitation.projectId
        IN  \/ ~(/\ invitation.status = "pending"
                 /\ pid \in DOMAIN projects
                 /\ accept => 1 + Len(projects[pid].teamMembers) < 4)
            \/ ~RespondToTeamInvite(invitation.inviteeId, iid, accept)
            \/ /\ response' = 200
               /\ team_invitations'[iid].respondedAt # Null
               /\ IF accept
                  THEN /\ projects'[pid].teamMembers =
                            Append(projects[pid].teamMembers,
                                   [userId |-> invitation.inviteeId,
                                    role |-> Null, isLeader |-> FALSE])
                       /\ team_invitations'[iid].status = "accepted"
                  ELSE /\ projects' = projects
                       /\ team_invitations'[iid].status = "declined"

\* C16: RespondToInvitation on a pending invitation by its invitee: with
\* accept and a team below 4 it appends exactly one TeamMember for the
\* invitee (role null, isLeader false) and sets the invitation accepted;
\* with decline it sets the invitation declined and leaves teamMembers
\* unchanged; in both cases respondedAt becomes non-null (SpecTeam).
C16_Respond == [][C16_RespondEffect]_vars

\* a member who joined by an accepted invitation and a student whose
\* invitation is declined, both invitations stamped
C16_Witness ==
    \E i1, i2 \in DOMAIN team_invitations :
        LET pid == team_invitations[i1].projectId
        IN  /\ team_invitations[i2].projectId = pid
            /\ pid \in DOMAIN projects
            /\ team_invitations[i1].status = "accepted"
            /\ team_invitations[i1].respondedAt # Null
            /\ projects[pid].teamMembers =
                    <<[userId |-> team_invitations[i1].inviteeId,
                       role |-> Null, isLeader |-> FALSE]>>
            /\ team_invitations[i2].status = "declined"
            /\ team_invitations[i2].respondedAt # Null
            /\ team_invitations[i2].inviteeId # team_invitations[i1].inviteeId
            /\ response = 200

\* the step of an acceptance that reads the project: when the project is
\* gone the call ends with 404, when the team it reads has 4 people the call
\* ends with 400; the step writes nothing, the call makes no later write,
\* and the invitation is still pending with no respondedAt
C17_RecheckStep ==
    \A k \in Slots :
        \/ ~(At(k, "respond_to_team_invite", "find_project") /\ calls[k].accept)
        \/ ~InviteFindProject(k)
        \/ LET iid == calls[k].iid
               pid == iid[1]
           IN  IF pid \notin DOMAIN projects
               THEN /\ calls'[k].pc = "done" /\ calls'[k].status = 404
                    /\ UNCHANGED db
               ELSE 1 + Len(projects[pid].teamMembers) >= 4 =>
                        /\ calls'[k].pc = "done" /\ calls'[k].status = 400
                        /\ UNCHANGED db
                        /\ team_invitations[iid].status = "pending"
                        /\ team_invitations[iid].respondedAt = Null

\* C17: RespondToInvitation(accept) on a pending invitation fails with 400
\* when the team has 4 people at the time of the response; the invitation
\* stays pending with respondedAt null and teamMembers is unchanged; when
\* the project no longer exists it fails with 404 (SpecGone).
C17_Recheck == [][C17_RecheckStep]_vars

\* an acceptance ended with 400 on a team that filled up after the
\* invitation was sent; the invitation is still pending
C17_Witness ==
    \E k \in Slots :
        /\ calls[k].op = "respond_to_team_invite" /\ calls[k].accept
        /\ calls[k].pc = "done" /\ calls[k].status = 400
        /\ calls[k].iid \in DOMAIN team_invitations
        /\ team_invitations[calls[k].iid].status = "pending"
        /\ team_invitations[calls[k].iid].respondedAt = Null
        /\ calls[k].iid[1] \in DOMAIN projects
        /\ Len(projects[calls[k].iid[1]].teamMembers) = 3
        /\ ~IsMember(projects[calls[k].iid[1]], calls[k].u)

\* an acceptance ended with 404: the project was deleted after the
\* invitation was read
C17_GoneWitness ==
    \E k \in Slots :
        /\ calls[k].op = "respond_to_team_invite" /\ calls[k].accept
        /\ calls[k].pc = "done" /\ calls[k].status = 404
        /\ projects = <<>>
        /\ issued.projects = 1

\* a response to an invitation by a user who is not its invitee, and a
\* response to a guide request by a user who is not the project owner, are
\* answered 403 and write nothing, whatever the status of the record
C18_NotAddressed ==
    /\ \A iid \in DOMAIN team_invitations, u \in Callers, accept \in BOOLEAN :
            (/\ u # team_invitations[iid].inviteeId
             /\ RespondToTeamInvite(u, iid, accept))
            => (response' = 403 /\ UNCHANGED db)
    /\ \A rid \in DOMAIN guide_requests, u \in Callers, body \in OfferGuideResponses :
            (/\ u # guide_requests[rid].ownerId
             /\ RespondToGuideRequest(u, rid, body))
            => (response' = 403 /\ UNCHANGED db)

C20_NotOwnerRefused ==
    \A pid \in DOMAIN projects, u \in OwnerRouteCallers :
        (/\ u # projects[pid].ownerId
         /\ \/ SendTeamInvite(u, pid, "s2@hub")
            \/ RemoveTeamMember(u, pid, "s2")
            \/ UpdateTeamMember(u, pid, "s2", [isLeader |-> TRUE])
            \/ DeleteProject(u, pid))
        => (response' = 403 /\ UNCHANGED db)

-----------------------------------------------------------------------------
(* Claims about sending guide requests                                     *)

\* a guide request by a teacher for a project that has a guide, is of
\* another department, or already has the teacher's pending request, is
\* answered 400 and creates nothing
C21_RefusedStep ==
    \A u \in Teachers, pid \in DOMAIN projects, json \in GuideRequestBodies :
        (/\ \/ projects[pid].guideId # Null
            \/ users[u].department # projects[pid].department
            \/ \E rid \in RequestsOf(pid, "pending") : guide_requests[rid].teacherId = u
         /\ SendGuideRequest(u, pid, json))
        => (response' = 400 /\ UNCHANGED db)

\* C21: RequestToGuide by a Teacher fails with 400, creating no request,
\* when the project already has a guide, when the teacher's department
\* differs from the project's, or when a pending request from this teacher
\* for this project exists (SpecGuide).
C21_RequestRefused == [][C21_RefusedStep]_vars

\* a guide request by a teacher of the project's department, for a project
\* with no guide and no pending request of the teacher, is answered 201 and
\* inserts one pending request that records teacher, project, owner and
\* deadline
C22_CreatedStep ==
    \A u \in Teachers, pid \in DOMAIN projects :
        (/\ projects[pid].guideId = Null
         /\ users[u].department = projects[pid].department
         /\ ~\E rid \in RequestsOf(pid, "pending") : guide_requests[rid].teacherId = u
         /\ SendGuideRequest(u, pid, [deadline |-> "d1"]))
        => /\ response' = 201
           /\ \E rid \in DOMAIN guide_requests' \ DOMAIN guide_requests :
                /\ DOMAIN guide_requests' = DOMAIN guide_requests \cup {rid}
                /\ guide_requests'[rid].status = "pending"
                /\ guide_requests'[rid].teacherId = u
                /\ guide_requests'[rid].projectId = pid
                /\ guide_requests'[rid].ownerId = projects[pid].ownerId
                /\ guide_requests'[rid].deadline = "d1"

\* C22: RequestToGuide by a Teacher of the project's department, on a
\* project with no guide and no pending request from that teacher, succeeds
\* and creates a pending GuideRequest that records the teacher, the project,
\* the owner and the proposed deadline (SpecGuide).
C22_RequestCreated == [][C22_CreatedStep]_vars

\* the pending requests of one teacher for one project
PendingOf(pid, teacher_id) ==
    {rid \in RequestsOf(pid, "pending") : guide_requests[rid].teacherId = teacher_id}

C23_OnePending ==
    \A pid \in ProjectIds, t \in Teachers : Cardinality(PendingOf(pid, t)) <= 1

\* pending requests of other teachers do not stand in the way of a request
C23_OthersNoObstacle ==
    \A u \in Teachers, pid \in DOMAIN projects :
        (/\ projects[pid].guideId = Null
         /\ users[u].department = projects[pid].department
         /\ PendingOf(pid, u) = {}
         /\ RequestToGuide(u, pid, [deadline |-> "d1"]))
        => (response' = 201 /\ Cardinality(PendingOf(pid, u)') = 1)

-----------------------------------------------------------------------------
(* Claims about declined guide requests                                    *)

\* reasons that are missing, empty or made of white space
BlankReasons == {Null, "", " "}

C24_DeclinedHaveReason ==
    \A rid \in DOMAIN guide_requests :
        guide_requests[rid].status = "declined"
        => guide_requests[rid].declineReason \notin BlankReasons

C24_AutoDeclineReason ==
    \A rid \in DOMAIN guide_requests \cap DOMAIN guide_requests' :
        \A u \in Callers, other \in DOMAIN guide_requests, body \in GuideResponses :
            (/\ other # rid
             /\ guide_requests[rid].status = "pending"
             /\ guide_requests'[rid].status = "declined"
             /\ RespondToGuideRequest(u, other, body))
            => guide_requests'[rid].declineReason = "Another guide was accepted"

C24_BlankRefused ==
    \A rid \in DOMAIN guide_requests :
        \A body \in GuideResponses :
            (/\ guide_requests[rid].status = "pending"
             /\ ~body.accept
             /\ (IF "declineReason" \in DOMAIN body THEN body.declineReason ELSE Null)
                    \in BlankReasons
             /\ RespondToGuideRequest(guide_requests[rid].ownerId, rid, body))
            => (response' = 400 /\ UNCHANGED db)

-----------------------------------------------------------------------------
(* Claims about responded invitations and guide requests                   *)

ResponseStatuses == {"accepted", "declined"}

\* status is pending exactly when respondedAt is null
C25_Stamped(offers) ==
    \A id \in DOMAIN offers :
        /\ offers[id].status \in ResponseStatuses \cup {"pending"}
        /\ offers[id].status = "pending" <=> offers[id].respondedAt = Null

C25_PendingIffUnstamped == C25_Stamped(team_invitations) /\ C25_Stamped(guide_requests)

\* a responded record that is still stored has the status and the stamp it
\* had
C25_TerminalStep ==
    /\ \A id \in DOMAIN team_invitations \cap DOMAIN team_invitations' :
            team_invitations[id].status \in ResponseStatuses
            => /\ team_invitations'[id].status = team_invitations[id].status
               /\ team_invitations'[id].respondedAt = team_invitations[id].respondedAt
    /\ \A id \in DOMAIN guide_requests \cap DOMAIN guide_requests' :
            guide_requests[id].status \in ResponseStatuses
            => /\ guide_requests'[id].status = guide_requests[id].status
               /\ guide_requests'[id].respondedAt = guide_requests[id].respondedAt

-----------------------------------------------------------------------------
(* Claims about the handlers that write a project document                 *)

OnTeam(project, u) ==
    \E i \in 1..Len(project.teamMembers) : project.teamMembers[i].userId = u

EditableFields == {"name", "description", "courseCode", "status", "deadline"}

\* an update by the owner or a member writes the supplied fields and nothing
\* else; an update by anybody else is answered 403 and writes nothing
C28_UpdateStep ==
    \A u \in EditCallers, pid \in DOMAIN projects, upd \in ProjectUpdates :
        UpdateProject(u, pid, upd) =>
            IF projects[pid].ownerId = u \/ OnTeam(projects[pid], u)
            THEN /\ response' = 200
                 /\ DOMAIN projects' = DOMAIN projects
                 /\ DOMAIN projects'[pid] = DOMAIN projects[pid]
                 /\ \A f \in DOMAIN upd : projects'[pid][f] = upd[f]
                 /\ \A f \in DOMAIN projects[pid] \ DOMAIN upd :
                        projects'[pid][f] = projects[pid][f]
                 /\ DOMAIN upd \subseteq EditableFields
                 /\ UNCHANGED <<team_invitations, guide_requests>>
            ELSE response' = 403 /\ UNCHANGED db

C29_FixedStep ==
    /\ \A pid \in DOMAIN projects \cap DOMAIN projects' :
            /\ projects'[pid].ownerId = projects[pid].ownerId
            /\ projects'[pid].department = projects[pid].department
    /\ \A pid \in DOMAIN projects' \ DOMAIN projects :
            /\ users[projects'[pid].ownerId].role = "Student"
            /\ projects'[pid].department = users[projects'[pid].ownerId].department

-----------------------------------------------------------------------------
(* Claims about reading a project                                          *)

C26_NotFoundStep ==
    \A u \in ReadCallers \cap db_users, pid \in PathProjectIds :
        (pid \notin DOMAIN projects /\ GetProject(u, pid)) => response' = 404

\* C26: GetProject is answered 404 both when the project id is malformed
\* and when no project has that id (SpecRead).
C26_NotFound == [][C26_NotFoundStep]_vars

\* the project is returned to the owner, the members and the guide, and to
\* nobody else
C27_AccessStep ==
    \A u \in ReadCallers \cap db_users, pid \in DOMAIN projects :
        GetProject(u, pid) =>
            IF \/ projects[pid].ownerId = u
               \/ OnTeam(projects[pid], u)
               \/ projects[pid].guideId = u
            THEN response' = 200 /\ returned' # {}
            ELSE response' = 403 /\ returned' = {}

\* every member of the returned project has a name, the placeholder when
\* the user document is gone
C27_NamesStep ==
    \A u \in ReadCallers, pid \in DOMAIN projects :
        GetProject(u, pid) =>
            \A project \in returned' : \A i \in 1..Len(project.teamMembers) :
                LET member == project.teamMembers[i]
                IN  /\ "fullName" \in DOMAIN member
                    /\ member.userId \notin db_users => member.fullName = "Unknown User"

C27_ReadOnlyStep ==
    \A u \in ReadCallers, pid \in PathProjectIds :
        GetProject(u, pid) => UNCHANGED <<db, db_users>>

\* C27: GetProject returns an existing project to its owner, its current
\* members and its current guide and answers 403 to every other caller; a
\* member whose user document cannot be found gets a placeholder name and
\* does not make the read fail; GetProject changes no stored state
\* (SpecRead).
C27_Read == [][C27_AccessStep /\ C27_ReadOnlyStep /\ C27_NamesStep]_vars

-----------------------------------------------------------------------------
(* Claims about milestone and deadline updates                             *)

\* owner, member or guide of the project
Related(project, u) ==
    project.ownerId = u \/ OnTeam(project, u) \/ project.guideId = u

HasOrder(project, order) ==
    \E i \in 1..Len(project.milestones) : project.milestones[i].order = order

C31_RejectedStep ==
    \A u \in PhaseCallers, pid \in DOMAIN projects, json \in MilestoneBodies :
        PutMilestones(u, pid, json) =>
            IF ~Related(projects[pid], u) THEN response' = 403 /\ UNCHANGED db
            ELSE IF \/ json.status \notin {"not_started", "in_progress", "completed"}
                    \/ ~HasOrder(projects[pid], json.milestoneOrder)
            THEN response' = 400 /\ UNCHANGED db
            ELSE TRUE

\* C31: UpdateMilestone is rejected with the project unchanged: with 403
\* when the caller is not owner, member or guide, whatever the payload;
\* with 400 when the new status is not not_started, in_progress or
\* completed; with 400 when no milestone has the given order (SpecPhase).
C31_MilestoneRejected == [][C31_RejectedStep]_vars

C32_DeadlineStep ==
    \A u \in PhaseCallers, pid \in DOMAIN projects, deadline \in {"d2", "d3"} :
        SetDeadline(u, pid, deadline) =>
            IF projects[pid].guideId # Null /\ projects[pid].guideId = u
            THEN /\ response' = 200
                 /\ DOMAIN projects' = DOMAIN projects
                 /\ projects'[pid].deadline = deadline
                 /\ \A f \in DOMAIN projects[pid] \ {"deadline"} :
                        projects'[pid][f] = projects[pid][f]
                 /\ UNCHANGED <<team_invitations, guide_requests>>
            ELSE response' = 403 /\ UNCHANGED db

-----------------------------------------------------------------------------
(* Claims about removing a team member                                     *)

\* the pending invitations of a project to a user
PendingTo(invitations, pid, user_id) ==
    {id \in DOMAIN invitations :
        /\ invitations[id].projectId = pid
        /\ invitations[id].inviteeId = user_id
        /\ invitations[id].status = "pending"}

\* the sequence after is the sequence before with its k-th entry left out
LeftOut(before, after, k) ==
    /\ Len(after) = Len(before) - 1
    /\ \A i \in 1..Len(after) : after[i] = IF i < k THEN before[i] ELSE before[i + 1]

C33_RemoveStep ==
    \A pid \in DOMAIN projects, m \in Invitees :
        RemoveTeamMember(projects[pid].ownerId, pid, m) =>
            IF OnTeam(projects[pid], m)
            THEN /\ response' = 200
                 /\ DOMAIN projects' = DOMAIN projects
                 /\ \E k \in 1..Len(projects[pid].teamMembers) :
                        /\ projects[pid].teamMembers[k].userId = m
                        /\ LeftOut(projects[pid].teamMembers, projects'[pid].teamMembers, k)
                 /\ \A f \in DOMAIN projects[pid] \ {"teamMembers"} :
                        projects'[pid][f] = projects[pid][f]
                 /\ PendingTo(team_invitations', pid, m) = {}
                 /\ DOMAIN team_invitations' =
                        DOMAIN team_invitations \ PendingTo(team_invitations, pid, m)
                 /\ \A id \in DOMAIN team_invitations' :
                        team_invitations'[id] = team_invitations[id]
                 /\ UNCHANGED guide_requests
            ELSE response' = 404 /\ UNCHANGED db

-----------------------------------------------------------------------------
(* Claims about listing projects                                           *)

\* the projects a student or teacher may see under the filters
Visible(u, status_filter, role_filter) ==
    {pid \in DOMAIN projects :
        /\ IF users[u].role = "Student"
           THEN \/ role_filter # "member" /\ projects[pid].ownerId = u
                \/ role_filter # "owner" /\ OnTeam(projects[pid], u)
           ELSE projects[pid].guideId = u
        /\ status_filter = "in_progress" => projects[pid].status = "in_progress"}

\* a list step of caller u with the given filters, with its cheap
\* consequences tested first
ListStep(u, filter) ==
    /\ response' = 200
    /\ {project._id : project \in returned'} =
            {pid \in DOMAIN projects :
                /\ RoleMatches(projects[pid], u, filter[2])
                /\ StatusMatches(projects[pid], filter[1])}
    /\ ListProjects(u, filter[1], filter[2])

C34_ListStep ==
    \A u \in ListCallers, filter \in ListFilters :
        ListStep(u, filter) =>
            /\ {project._id : project \in returned'} = Visible(u, filter[1], filter[2])
            /\ \A project \in returned' :
                    /\ project.ownerId = projects[project._id].ownerId
                    /\ project.guideId = projects[project._id].guideId
                    /\ project.status = projects[project._id].status
                    /\ Related(projects[project._id], u)
            /\ UNCHANGED <<db, db_users>>

C35_UpdateStep ==
    \A u \in PhaseCallers, pid \in DOMAIN projects, json \in MilestoneBodies :
        (response' = 200 /\ PutMilestones(u, pid, json)) =>
            /\ DOMAIN projects' = DOMAIN projects
            /\ Len(projects'[pid].milestones) = Len(projects[pid].milestones)
            /\ \A i \in 1..Len(projects[pid].milestones) :
                    projects'[pid].milestones[i] =
                        IF projects[pid].milestones[i].order = json.milestoneOrder
                        THEN [name |-> projects[pid].milestones[i].name,
                              order |-> projects[pid].milestones[i].order,
                              status |-> json.status]
                        ELSE projects[pid].milestones[i]
            /\ projects'[pid].progress =
                    25 * Cardinality({i \in 1..4 :
                            projects'[pid].milestones[i].status = "completed"})
            /\ \A f \in DOMAIN projects[pid] \ {"milestones", "progress"} :
                    projects'[pid][f] = projects[pid][f]
            /\ UNCHANGED <<team_invitations, guide_requests>>

C37_MemberOnce ==
    \A pid \in DOMAIN projects :
        \A i, j \in 1..Len(projects[pid].teamMembers) :
            projects[pid].teamMembers[i].userId = projects[pid].teamMembers[j].userId
                => i = j

\* C38: with a response to an invitation and an update of a team member in
\* flight at the same time and no member removed, once no request is in
\* flight the invitee of every accepted invitation is in the teamMembers of
\* the project: the member appended by the acceptance is not lost to the
\* list written back by update_team_member (SpecMemberRace).
C38_AcceptedIsMember ==
    AllIdle =>
        \A iid \in DOMAIN team_invitations :
            (team_invitations[iid].status = "accepted"
                    /\ team_invitations[iid].projectId \in DOMAIN projects) =>
                IsMember(projects[team_invitations[iid].projectId],
                         team_invitations[iid].inviteeId)

C40_NoneLeftBehind ==
    AllIdle =>
        /\ \A iid \in DOMAIN team_invitations :
                team_invitations[iid].projectId \in DOMAIN projects
        /\ \A rid \in DOMAIN guide_requests :
                guide_requests[rid].projectId \in DOMAIN projects

====
